---------------------------- MODULE Spec2Model ----------------------------
(***************************************************************************)
(* DocQuest backend: document processing (processor.py), retrieval and     *)
(* grounded answering (qa_engine.py), challenge questions and answer       *)
(* evaluation (logic_quiz.py) and the Flask handlers (app.py).             *)
(*                                                                         *)
(* Texts are TLA+ strings; Python's str operations are defined on them     *)
(* character by character.  External services (the PDF parser, the text    *)
(* splitter library, the embedding model, the generative model) are        *)
(* nondeterministic choices among the outcomes they can produce.           *)
(***************************************************************************)
EXTENDS Integers, Sequences, FiniteSets, TLC

VARIABLES
    document_chunks,   \* app.py: the global list of the live document's chunks
    faiss_index,       \* the persisted index at VECTOR_DB_PATH, or NoIndex
    workers,           \* position and locals of each in-flight /process request
    overlapped,        \* history: two /process requests were in flight together
    build_failed,      \* history: build_vector_store raised during a /process
    http,              \* the last HTTP response sent, with what produced it
    call               \* the last direct call of a backend function, with its result

vars == <<document_chunks, faiss_index, workers, overlapped, build_failed, http,
         call>>

-----------------------------------------------------------------------------
(* Python str operations *)

Min(a, b) == IF a < b THEN a ELSE b
Max(a, b) == IF a > b THEN a ELSE b

Char(s, i) == SubSeq(s, i, i)

\* s[a:b] for 0 <= a, 0 <= b
Slice(s, a, b) ==
    IF a >= Min(b, Len(s)) THEN "" ELSE SubSeq(s, a + 1, Min(b, Len(s)))

\* s[a:]
SliceFrom(s, a) == Slice(s, a, Len(s))

Whitespace == {" ", "\n", "\t", "\r"}
Digits == {"0", "1", "2", "3", "4", "5", "6", "7", "8", "9"}
LowerAlpha == "abcdefghijklmnopqrstuvwxyz"
UpperAlpha == "ABCDEFGHIJKLMNOPQRSTUVWXYZ"

IsSpace(c) == c \in Whitespace
IsDigit(c) == c \in Digits

SetMin(S) == CHOOSE x \in S : \A y \in S : x <= y

\* str.strip()
Strip(s) ==
    IF \A i \in 1..Len(s) : IsSpace(Char(s, i)) THEN ""
    ELSE
    LET first == CHOOSE i \in 1..Len(s) :
                    /\ ~IsSpace(Char(s, i))
                    /\ \A k \in 1..(i - 1) : IsSpace(Char(s, k))
        last == CHOOSE j \in first..Len(s) :
                    /\ ~IsSpace(Char(s, j))
                    /\ \A k \in (j + 1)..Len(s) : IsSpace(Char(s, k))
    IN  SubSeq(s, first, last)

LowerLetters == {Char(LowerAlpha, i) : i \in 1..26}
UpperLetters == {Char(UpperAlpha, i) : i \in 1..26}
ToLower == [c \in UpperLetters |->
               Char(LowerAlpha, CHOOSE i \in 1..26 : Char(UpperAlpha, i) = c)]
ToUpper == [c \in LowerLetters |->
               Char(UpperAlpha, CHOOSE i \in 1..26 : Char(LowerAlpha, i) = c)]

LowerChar(c) == IF c \in UpperLetters THEN ToLower[c] ELSE c
UpperChar(c) == IF c \in LowerLetters THEN ToUpper[c] ELSE c

\* str.lower(), by halves
RECURSIVE Lower(_)
Lower(s) ==
    IF Len(s) = 0 THEN ""
    ELSE IF Len(s) = 1 THEN LowerChar(s)
    ELSE LET h == Len(s) \div 2
         IN  Lower(SubSeq(s, 1, h)) \o Lower(SubSeq(s, h + 1, Len(s)))

\* str.upper(), by halves
RECURSIVE Upper(_)
Upper(s) ==
    IF Len(s) = 0 THEN ""
    ELSE IF Len(s) = 1 THEN UpperChar(s)
    ELSE LET h == Len(s) \div 2
         IN  Upper(SubSeq(s, 1, h)) \o Upper(SubSeq(s, h + 1, Len(s)))

\* sub in s
Contains(s, sub) ==
    \E i \in 0..(Len(s) - Len(sub)) : Slice(s, i, i + Len(sub)) = sub

StartsWith(s, p) == Len(p) <= Len(s) /\ Slice(s, 0, Len(p)) = p
EndsWith(s, p) == Len(p) <= Len(s) /\ Slice(s, Len(s) - Len(p), Len(s)) = p

\* the pieces of s between the positions in the set cuts (each cut a position
\* of a separator character), in order
RECURSIVE PiecesBetween(_, _, _)
PiecesBetween(s, from, cuts) ==
    IF cuts = {} THEN <<Slice(s, from, Len(s))>>
    ELSE LET c == SetMin(cuts)
         IN  <<Slice(s, from, c - 1)>> \o PiecesBetween(s, c, cuts \ {c})

\* s.split("\n")
SplitLines(s) == PiecesBetween(s, 0, {i \in 1..Len(s) : Char(s, i) = "\n"})

\* the positions where the words of s.split() start
WordStarts(s) ==
    {i \in 1..Len(s) : /\ ~IsSpace(Char(s, i))
                       /\ (i = 1 \/ IsSpace(Char(s, i - 1)))}

\* the position where the word that starts at i ends
WordEnd(s, i) ==
    CHOOSE j \in i..Len(s) :
        /\ j = Len(s) \/ IsSpace(Char(s, j + 1))
        /\ \A k \in (i + 1)..j : ~IsSpace(Char(s, k))

\* set(s.split())
WordSet(s) == {SubSeq(s, i, WordEnd(s, i)) : i \in WordStarts(s)}

\* len(s.split())
WordCount(s) == Cardinality(WordStarts(s))

\* sep.join(parts)
RECURSIVE Join(_, _)
Join(parts, sep) ==
    IF Len(parts) = 0 THEN ""
    ELSE IF Len(parts) = 1 THEN parts[1]
    ELSE parts[1] \o sep \o Join(Tail(parts), sep)

\* s repeated n times, by halves
RECURSIVE Repeat(_, _)
Repeat(s, n) ==
    IF n = 0 THEN ""
    ELSE IF n = 1 THEN s
    ELSE Repeat(s, n \div 2) \o Repeat(s, n - (n \div 2))

\* a Python dict that keeps insertion order: d[k] = v
DictEmpty == [keys |-> <<>>, val |-> <<>>]
DictHas(d, k) == \E i \in 1..Len(d.keys) : d.keys[i] = k
DictGet(d, k) == d.val[CHOOSE i \in 1..Len(d.keys) : d.keys[i] = k]
DictSet(d, k, v) ==
    IF DictHas(d, k)
    THEN [d EXCEPT !.val =
            [i \in 1..Len(d.keys) |-> IF d.keys[i] = k THEN v ELSE d.val[i]]]
    ELSE [keys |-> Append(d.keys, k), val |-> Append(d.val, v)]

-----------------------------------------------------------------------------
(* processor.py: sections *)

SECTION_HEADERS ==
    <<"Abstract", "Introduction", "Background", "Methodology", "Methods",
      "Results", "Discussion", "Conclusion", "References", "Literature Review",
      "Related Work", "Experiments", "Analysis", "Findings", "Summary",
      "Overview", "Executive Summary", "Objectives", "Scope", "Definitions">>

AllSpace(s) == \A i \in 1..Len(s) : IsSpace(Char(s, i))
AllDigits(s) == Len(s) >= 1 /\ \A i \in 1..Len(s) : IsDigit(Char(s, i))

\* ^\d+\.\s*$ on the text before the header name
NumberPrefix(p) ==
    \E k \in 1..Len(p) :
        /\ Char(p, k) = "."
        /\ AllDigits(Slice(p, 0, k - 1))
        /\ AllSpace(SliceFrom(p, k))

\* ^\d+\.\d+\s*$ on the text before the header name
DecimalPrefix(p) ==
    \E k \in 1..Len(p) : \E m \in (k + 1)..Len(p) :
        /\ Char(p, k) = "."
        /\ AllDigits(Slice(p, 0, k - 1))
        /\ AllDigits(Slice(p, k, m))
        /\ AllSpace(SliceFrom(p, m))

\* SECTION_HEADERS in lower case, for re.IGNORECASE
LowerHeaders == [i \in 1..Len(SECTION_HEADERS) |-> Lower(SECTION_HEADERS[i])]

\* some pattern of the list matches the line; l and h are the line and the
\* header in lower case
HeaderMatches(h, l) ==
    \/ l = h
    \/ StartsWith(l, h) /\ AllSpace(SliceFrom(l, Len(h)))
    \/ /\ EndsWith(l, h)
       /\ LET p == Slice(l, 0, Len(l) - Len(h))
          IN  NumberPrefix(p) \/ DecimalPrefix(p)

\* the first header of SECTION_HEADERS matching the line, 0 if none
MatchedHeader(line_clean) ==
    LET l == Lower(line_clean)
        hits == {i \in 1..Len(SECTION_HEADERS) : HeaderMatches(LowerHeaders[i], l)}
    IN  IF hits = {} THEN 0 ELSE SetMin(hits)

\* the buffer saved only under a header that was seen
SaveSectionUnderHeader(sections, current_section, buffer) ==
    IF Len(buffer) > 0 /\ current_section # "Main Content"
    THEN DictSet(sections, current_section, Strip(Join(buffer, "\n")))
    ELSE sections

SaveSection(sections, current_section, buffer) ==
    IF Len(buffer) > 0
    THEN DictSet(sections, current_section, Strip(Join(buffer, "\n")))
    ELSE sections

\* the loop over lines, from line i on
RECURSIVE SectionLoop(_, _, _, _, _)
SectionLoop(lines, i, sections, current_section, buffer) ==
    IF i > Len(lines)
    THEN SaveSection(sections, current_section, buffer)
    ELSE LET line == lines[i]
             line_clean == Strip(line)
             hit == MatchedHeader(line_clean)
         IN  IF line_clean = ""
             THEN SectionLoop(lines, i + 1, sections, current_section, buffer)
             ELSE IF hit # 0
             THEN SectionLoop(lines, i + 1,
                              SaveSection(sections, current_section, buffer),
                              SECTION_HEADERS[hit], <<>>)
             ELSE SectionLoop(lines, i + 1, sections, current_section,
                              Append(buffer, line))

DropEmptySections(sections) ==
    LET keep == {i \in 1..Len(sections.keys) : Strip(sections.val[i]) # ""}
        F[i \in 0..Len(sections.keys)] ==
            IF i = 0 THEN DictEmpty
            ELSE IF i \in keep
                 THEN [keys |-> Append(F[i - 1].keys, sections.keys[i]),
                       val |-> Append(F[i - 1].val, sections.val[i])]
                 ELSE F[i - 1]
    IN  F[Len(sections.keys)]

split_into_sections(text) ==
    DropEmptySections(
        SectionLoop(SplitLines(text), 1, DictEmpty, "Main Content", <<>>))

-----------------------------------------------------------------------------
(* processor.py: chunks *)

chunk_size == 600
chunk_overlap == 100
MinChunkLen == 30
FallbackWindow == 500
FallbackStride == 400

\* windows that do not overlap: the stride taken to be the window
FallbackChunksNoOverlap(section_text) ==
    LET n == (Len(section_text) + FallbackWindow - 1) \div FallbackWindow
    IN  [k \in 1..n |->
            Slice(section_text, FallbackWindow * (k - 1),
                  FallbackWindow * (k - 1) + FallbackWindow)]

\* [section_text[i:i + 500] for i in range(0, len(section_text), 400)]
FallbackChunks(section_text) ==
    LET n == (Len(section_text) + FallbackStride - 1) \div FallbackStride
    IN  [k \in 1..n |->
            Slice(section_text, FallbackStride * (k - 1),
                  FallbackStride * (k - 1) + FallbackWindow)]

\* [x for x in xs if keep(x)], keep given as the set of kept positions
FilterAt(xs, keep) ==
    LET F[i \in 0..Len(xs)] ==
            IF i = 0 THEN <<>>
            ELSE IF i \in keep THEN Append(F[i - 1], xs[i]) ELSE F[i - 1]
    IN  F[Len(xs)]

\* [chunk for chunk in chunks if len(chunk.strip()) > 30]
LongEnough(chunks) ==
    FilterAt(chunks, {i \in 1..Len(chunks) : Len(Strip(chunks[i])) > MinChunkLen})

\* What RecursiveCharacterTextSplitter(...).split_text(section_text) may do: it
\* raises (size 0), or it returns stripped, non-empty pieces of the text of at
\* most `size` <= chunk_size characters, consecutive pieces sharing `overlap`
\* characters.  A text of at most chunk_size characters comes back whole.
SplitPieces(section_text, size, overlap) ==
    LET stride == size - overlap
        n == IF Len(section_text) <= size THEN 1
             ELSE (Len(section_text) - overlap + stride - 1) \div stride
        raw == [k \in 1..n |->
                    Strip(Slice(section_text, stride * (k - 1),
                                stride * (k - 1) + size))]
    IN  FilterAt(raw, {i \in 1..n : raw[i] # ""})

\* the splitter's behaviours: <<size, overlap>>, size 0 for an exception
SplitBehaviours ==
    {<<0, 0>>, <<chunk_size, chunk_overlap>>, <<chunk_size, 0>>,
     <<45, 10>>, <<45, 0>>, <<20, 5>>}

chunk_section(section_text, split) ==
    IF Strip(section_text) = "" THEN <<>>
    ELSE IF split[1] # 0
         THEN LongEnough(SplitPieces(section_text, split[1], split[2]))
         ELSE FallbackChunks(section_text)

-----------------------------------------------------------------------------
(* processor.py: extraction and process_document *)

\* An uploaded file: filename; text, the decoded content of a TXT file; for a
\* PDF, empty (no bytes), opens (fitz.open succeeds) and pages, each page
\* [raises, text] for what page.get_text() does.
TxtFile(filename, text) ==
    [filename |-> filename, text |-> text, empty |-> text = "",
     opens |-> FALSE, pages |-> <<>>]
PdfFile(filename, empty, opens, pages) ==
    [filename |-> filename, text |-> "", empty |-> empty,
     opens |-> opens, pages |-> pages]

Failed(error) == [raises |-> TRUE, error |-> error, value |-> ""]
Succeeded(value) == [raises |-> FALSE, error |-> "", value |-> value]

extract_text_from_pdf(file) ==
    LET good == {i \in 1..Len(file.pages) :
                    ~file.pages[i].raises /\ Strip(file.pages[i].text) # ""}
        text_parts == FilterAt([i \in 1..Len(file.pages) |-> file.pages[i].text],
                               good)
    IN  IF file.empty THEN Failed("PDF parsing error: PDF file is empty")
        ELSE IF ~file.opens THEN Failed("PDF parsing error: cannot open")
        ELSE IF Len(file.pages) = 0
        THEN Failed("PDF parsing error: PDF has no pages")
        ELSE IF Len(text_parts) = 0
        THEN Failed("PDF parsing error: No extractable text found in PDF")
        ELSE Succeeded(Join(text_parts, "\n"))

extract_text_from_txt(file) ==
    IF Strip(file.text) = ""
    THEN Failed("TXT parsing error: TXT file is empty or contains no readable text")
    ELSE Succeeded(file.text)

\* the outcome r of an extraction, with the parsing routine that was invoked
Extracted(r, parser) ==
    [raises |-> r.raises, error |-> r.error, value |-> r.value, parser |-> parser]

\* every file taken for plain text
extract_text_any(file) ==
    LET filename == Lower(file.filename)
    IN  IF EndsWith(filename, ".pdf")
        THEN Extracted(extract_text_from_pdf(file), "pdf")
        ELSE Extracted(extract_text_from_txt(file), "txt")

extract_text(file) ==
    LET filename == Lower(file.filename)
    IN  IF EndsWith(filename, ".pdf")
        THEN Extracted(extract_text_from_pdf(file), "pdf")
        ELSE IF EndsWith(filename, ".txt")
        THEN Extracted(extract_text_from_txt(file), "txt")
        ELSE Extracted(
                Failed("Unsupported file format. Only PDF and TXT files are supported."),
                "none")

\* the chunk dicts of one section, numbered by enumerate's index
SectionChunksFromZero(sec_name, chunked) ==
    [idx \in 1..Len(chunked) |->
        [section |-> sec_name, paragraph |-> idx - 1, text |-> chunked[idx]]]

\* the chunk dicts of one section
SectionChunks(sec_name, chunked) ==
    [idx \in 1..Len(chunked) |->
        [section |-> sec_name, paragraph |-> idx, text |-> chunked[idx]]]

\* for sec_name, sec_text in sections_raw.items(), from section i on
RECURSIVE ChunkSections(_, _, _)
ChunkSections(sections_raw, i, split) ==
    IF i > Len(sections_raw.keys) THEN <<>>
    ELSE SectionChunks(sections_raw.keys[i],
                       chunk_section(sections_raw.val[i], split))
         \o ChunkSections(sections_raw, i + 1, split)

\* process_document returning a result also when no chunk was generated
process_document_unchecked(file, split, summary) ==
    LET text == extract_text(file)
        sections_raw == split_into_sections(text.value)
        chunks == ChunkSections(sections_raw, 1, split)
        r == IF text.raises THEN Failed(text.error)
             ELSE IF Len(sections_raw.keys) = 0
             THEN Failed("No sections found in document")
             ELSE Succeeded(
                     [sections |-> sections_raw.keys,
                      chunks |-> chunks,
                      summary |-> summary,
                      stats |-> [total_chunks |-> Len(chunks),
                                 total_sections |-> Len(sections_raw.keys),
                                 total_text_length |-> Len(text.value)]])
    IN  Extracted(r, text.parser)

\* process_document(file): split is the text splitter's behaviour, summary
\* the text generate_summary returns
process_document(file, split, summary) ==
    LET text == extract_text(file)
        sections_raw == split_into_sections(text.value)
        chunks == ChunkSections(sections_raw, 1, split)
        r == IF text.raises THEN Failed(text.error)
             ELSE IF Len(sections_raw.keys) = 0
             THEN Failed("No sections found in document")
             ELSE IF Len(chunks) = 0
             THEN Failed("No chunks generated from document")
             ELSE Succeeded(
                     [sections |-> sections_raw.keys,
                      chunks |-> chunks,
                      summary |-> summary,
                      stats |-> [total_chunks |-> Len(chunks),
                                 total_sections |-> Len(sections_raw.keys),
                                 total_text_length |-> Len(text.value)]])
    IN  Extracted(r, text.parser)

-----------------------------------------------------------------------------
(* qa_engine.py: the persisted index *)

\* str(n) for n >= 0
RECURSIVE IntStr(_)
IntStr(n) ==
    IF n < 10 THEN Char("0123456789", n + 1)
    ELSE IntStr(n \div 10) \o Char("0123456789", (n % 10) + 1)

NoIndex == [exists |-> FALSE, docs |-> <<>>]

\* the Documents build_vector_store makes of the chunks with non-blank text
IndexDocs(chunks) ==
    LET F[i \in 0..Len(chunks)] ==
            IF i = 0 THEN <<>>
            ELSE IF Strip(chunks[i].text) # ""
                 THEN Append(F[i - 1],
                        [page_content |-> chunks[i].text,
                         metadata |-> [section |-> chunks[i].section,
                                       paragraph |-> chunks[i].paragraph,
                                       chunk_id |-> Len(F[i - 1]) + 1]])
                 ELSE F[i - 1]
    IN  F[Len(chunks)]

\* build_vector_store(chunks): embed_ok is whether FAISS.from_documents and
\* save_local succeed.  index is what VECTOR_DB_PATH holds afterwards.
\* a build that removes the persisted index before it embeds the documents
build_vector_store_clearing(chunks, embed_ok, index) ==
    LET docs == IndexDocs(chunks)
    IN  IF Len(docs) = 0
        THEN [raises |-> TRUE, error |-> "No valid text chunks provided",
              index |-> index]
        ELSE IF ~embed_ok
        THEN [raises |-> TRUE, error |-> "embedding failed", index |-> NoIndex]
        ELSE [raises |-> FALSE, error |-> "",
              index |-> [exists |-> TRUE, docs |-> docs]]

build_vector_store(chunks, embed_ok, index) ==
    LET docs == IndexDocs(chunks)
    IN  IF Len(docs) = 0
        THEN [raises |-> TRUE, error |-> "No valid text chunks provided",
              index |-> index]
        ELSE IF ~embed_ok
        THEN [raises |-> TRUE, error |-> "embedding failed", index |-> index]
        ELSE [raises |-> FALSE, error |-> "",
              index |-> [exists |-> TRUE, docs |-> docs]]

\* load_vector_store(): load_ok is whether FAISS.load_local succeeds
load_vector_store(index, load_ok) ==
    IF ~index.exists
    THEN [raises |-> TRUE,
          error |-> "Vector store not found. Please process a document first.",
          docs |-> <<>>]
    ELSE IF ~load_ok
    THEN [raises |-> TRUE, error |-> "load failed", docs |-> <<>>]
    ELSE [raises |-> FALSE, error |-> "", docs |-> index.docs]

\* vector_store.similarity_search(query, k): the embedding model ranks the
\* stored documents.  A search outcome is <<ok, order, m>>: it raises (~ok), or
\* returns m <= k documents, the most similar first; the ranking is the stored
\* order ("fwd") or its reverse ("rev").
Reverse(xs) == [i \in 1..Len(xs) |-> xs[Len(xs) + 1 - i]]

SearchOutcomes(k) ==
    {<<FALSE, "fwd", 0>>} \cup
    {<<TRUE, o, m>> : o \in {"fwd", "rev"}, m \in 0..k}

similarity_search(docs, k, search) ==
    LET ranked == IF search[2] = "fwd" THEN docs ELSE Reverse(docs)
    IN  SubSeq(ranked, 1, Min(Min(k, search[3]), Len(docs)))

DefaultK == 5

\* retrieve_relevant_chunks(query, k)
retrieve_relevant_chunks(index, k, load_ok, search) ==
    LET vs == load_vector_store(index, load_ok)
    IN  IF vs.raises \/ ~search[1] THEN <<>>
        ELSE similarity_search(vs.docs, k, search)

-----------------------------------------------------------------------------
(* qa_engine.py: grounded answers *)

\* One llm.invoke(prompt): it raises, or returns text as a plain string
\* (shape "str"), or returns a structured object holding text
Raised == [raises |-> TRUE, text |-> "", shape |-> "str"]
Returned(text) == [raises |-> FALSE, text |-> text, shape |-> "str"]
Structured(text, shape) == [raises |-> FALSE, text |-> text, shape |-> shape]

\* response and response.strip()
NonEmpty(text) == text # "" /\ Strip(text) # ""

\* response.strip() on a response that is no str raises AttributeError
NoStrip(out) == ~out.raises /\ out.shape # "str"

\* get_llm() of qa_engine.py.  init is [token, construct, test]: HF_TOKEN is
\* set, HuggingFaceEndpoint(...) succeeds, and the outcome of llm.invoke("Test").
\* log lists the invocations of the model made.
\* a get_llm that tests the connection twice
qa_get_llm_testing_twice(init) ==
    IF ~init.token \/ ~init.construct
    THEN [raises |-> TRUE, log |-> <<>>]
    ELSE [raises |-> \/ init.test.raises
                     \/ NoStrip(init.test)
                     \/ ~NonEmpty(init.test.text),
          log |-> <<[prompt |-> "Test", outcome |-> init.test],
                    [prompt |-> "Test", outcome |-> init.test]>>]

qa_get_llm(init) ==
    IF ~init.token
    THEN [raises |-> TRUE, log |-> <<>>]
    ELSE IF ~init.construct
    THEN [raises |-> TRUE, log |-> <<>>]
    ELSE [raises |-> \/ init.test.raises
                     \/ NoStrip(init.test)
                     \/ ~NonEmpty(init.test.text),
          log |-> <<[prompt |-> "Test", outcome |-> init.test]>>]

qa_document_to_dict(doc) ==
    [page_content |-> doc.page_content, metadata |-> doc.metadata]

DictsOf(docs) == [i \in 1..Len(docs) |-> qa_document_to_dict(docs[i])]

AnswerContextLimit == 2000

\* context_parts joined, cut to 2000 characters
AnswerContext(docs) ==
    LET context_parts ==
            [i \in 1..Len(docs) |->
                "[SOURCE " \o IntStr(i) \o " - Section: "
                \o docs[i].metadata.section \o ", Paragraph: "
                \o IntStr(docs[i].metadata.paragraph) \o "]\n"
                \o docs[i].page_content]
        context == Join(context_parts, "\n\n")
    IN  IF Len(context) > AnswerContextLimit
        THEN Slice(context, 0, AnswerContextLimit) \o "..."
        ELSE context

GroundedOverlap == 3

\* grounded already at GroundedOverlap shared words
is_response_grounded_at(response, context) ==
    \/ Contains(Upper(response), "SOURCE")
    \/ Contains(Upper(response), "SECTION")
    \/ Cardinality(WordSet(Lower(context)) \cap WordSet(Lower(response)))
         >= GroundedOverlap

is_response_grounded(response, context) ==
    \/ Contains(Upper(response), "SOURCE")
    \/ Contains(Upper(response), "SECTION")
    \/ Cardinality(WordSet(Lower(context)) \cap WordSet(Lower(response)))
         > GroundedOverlap

FallbackDocs == 3
FallbackExcerpt == 200
FallbackAnswerLimit == 500

NoInformation ==
    [answer |-> "No relevant information found in the document to answer your question.",
     sources |-> <<>>,
     confidence |-> "low"]

\* a fallback that lists as sources only the documents it quotes
generate_fallback_answer_quoted(docs) ==
    [answer |-> "Based on the document content:",
     sources |-> DictsOf(SubSeq(docs, 1, Min(FallbackDocs, Len(docs)))),
     confidence |-> "medium"]

generate_fallback_answer(docs) ==
    IF Len(docs) = 0 THEN NoInformation
    ELSE
    LET top == SubSeq(docs, 1, Min(FallbackDocs, Len(docs)))
        Excerpt(doc) ==
            LET content == Slice(doc.page_content, 0, FallbackExcerpt)
            IN  IF EndsWith(content, "...")
                THEN Slice(content, 0, Len(content) - 3) ELSE content
        answer_parts ==
            [i \in 1..Len(top) |->
                "From " \o top[i].metadata.section \o " (paragraph "
                \o IntStr(top[i].metadata.paragraph) \o "): " \o Excerpt(top[i])]
        answer == "Based on the document content:\n\n" \o Join(answer_parts, "\n\n")
    IN  [answer |-> IF Len(answer) > FallbackAnswerLimit
                    THEN Slice(answer, 0, FallbackAnswerLimit) \o "..."
                    ELSE answer,
         sources |-> DictsOf(docs),
         confidence |-> "medium"]

max_retries == 3

\* for attempt in range(max_retries), from `attempt` on; outs[attempt + 1] is
\* the outcome of that attempt's llm.invoke(prompt)
\* the loop going on to the next attempt after a response that is not grounded
RECURSIVE AnswerAttemptsRetrying(_, _, _, _, _)
AnswerAttemptsRetrying(attempt, outs, docs, context, log) ==
    IF attempt >= max_retries
    THEN [ret |-> generate_fallback_answer(docs), log |-> log]
    ELSE
    LET out == outs[attempt + 1]
        log2 == Append(log, [prompt |-> "answer", outcome |-> out])
    IN  IF out.raises \/ NoStrip(out)
        THEN IF attempt < max_retries - 1
             THEN AnswerAttemptsRetrying(attempt + 1, outs, docs, context, log2)
             ELSE [ret |-> generate_fallback_answer(docs), log |-> log2]
        ELSE IF NonEmpty(out.text) /\ is_response_grounded(out.text, context)
        THEN [ret |-> [answer |-> Strip(out.text),
                       sources |-> DictsOf(docs),
                       confidence |-> "high"],
              log |-> log2]
        ELSE AnswerAttemptsRetrying(attempt + 1, outs, docs, context, log2)

RECURSIVE AnswerAttempts(_, _, _, _, _)
AnswerAttempts(attempt, outs, docs, context, log) ==
    IF attempt >= max_retries
    THEN [ret |-> generate_fallback_answer(docs), log |-> log]
    ELSE
    LET out == outs[attempt + 1]
        log2 == Append(log, [prompt |-> "answer", outcome |-> out])
    IN  IF out.raises \/ NoStrip(out)
        THEN IF attempt < max_retries - 1
             THEN AnswerAttempts(attempt + 1, outs, docs, context, log2)
             ELSE [ret |-> generate_fallback_answer(docs), log |-> log2]
        ELSE IF NonEmpty(out.text)
        THEN IF is_response_grounded(out.text, context)
             THEN [ret |-> [answer |-> Strip(out.text),
                            sources |-> DictsOf(docs),
                            confidence |-> "high"],
                   log |-> log2]
             ELSE [ret |-> generate_fallback_answer(docs), log |-> log2]
        ELSE AnswerAttempts(attempt + 1, outs, docs, context, log2)

ErrorAnswer(error) ==
    [answer |-> "Error generating answer: " \o error,
     sources |-> <<>>,
     confidence |-> "error"]

\* get_llm() called before the retrieval is looked at
generate_answer_llm_first(index, k, ext) ==
    LET vs == load_vector_store(index, ext.load_ok)
        docs == similarity_search(vs.docs, k, ext.search)
        llm == qa_get_llm(ext.init)
    IN  IF vs.raises \/ ~ext.search[1]
        THEN [ret |-> ErrorAnswer("failed"), log |-> <<>>]
        ELSE IF Len(docs) = 0 THEN [ret |-> NoInformation, log |-> llm.log]
        ELSE IF llm.raises
        THEN [ret |-> generate_fallback_answer(docs), log |-> llm.log]
        ELSE AnswerAttempts(0, ext.outs, docs, AnswerContext(docs), llm.log)

\* generate_answer_with_sources(query, k): ext is what the collaborators do,
\* [load_ok, search, init, outs]
generate_answer_with_sources(index, k, ext) ==
    LET vs == load_vector_store(index, ext.load_ok)
    IN  IF vs.raises THEN [ret |-> ErrorAnswer(vs.error), log |-> <<>>]
        ELSE IF ~ext.search[1]
        THEN [ret |-> ErrorAnswer("search failed"), log |-> <<>>]
        ELSE
        LET docs == similarity_search(vs.docs, k, ext.search)
            llm == qa_get_llm(ext.init)
        IN  IF Len(docs) = 0 THEN [ret |-> NoInformation, log |-> <<>>]
            ELSE IF llm.raises
            THEN [ret |-> generate_fallback_answer(docs), log |-> llm.log]
            ELSE AnswerAttempts(0, ext.outs, docs, AnswerContext(docs), llm.log)

-----------------------------------------------------------------------------
(* logic_quiz.py: challenge questions *)

\* get_llm() of logic_quiz.py: no invocation of the model
quiz_get_llm(init) ==
    [raises |-> ~init.token \/ ~init.construct, log |-> <<>>]

\* extract_text_from_response(response): the text of a plain string or of a
\* structured response; str(response) for any other object
extract_text_from_response(out) ==
    IF out.shape \in {"str", "choices_message", "choices_text", "content", "text"}
    THEN out.text
    ELSE "<response object>"

MaxSelected == 8
FirstChunks == 5
ContextChunkLen == 300

\* the first chunk of each section, at most 8; the first 5 chunks if none
\* the selection without the limit of 8 chunks
RECURSIVE SelectLoopUncapped(_, _, _)
SelectLoopUncapped(processed_chunks, i, selected_chunks) ==
    IF i > Len(processed_chunks) THEN selected_chunks
    ELSE IF \A j \in 1..Len(selected_chunks) :
               selected_chunks[j].section # processed_chunks[i].section
    THEN SelectLoopUncapped(processed_chunks, i + 1,
                            Append(selected_chunks, processed_chunks[i]))
    ELSE SelectLoopUncapped(processed_chunks, i + 1, selected_chunks)

RECURSIVE SelectLoop(_, _, _)
SelectLoop(processed_chunks, i, selected_chunks) ==
    IF i > Len(processed_chunks) THEN selected_chunks
    ELSE IF /\ \A j \in 1..Len(selected_chunks) :
                  selected_chunks[j].section # processed_chunks[i].section
            /\ Len(selected_chunks) < MaxSelected
    THEN SelectLoop(processed_chunks, i + 1,
                    Append(selected_chunks, processed_chunks[i]))
    ELSE SelectLoop(processed_chunks, i + 1, selected_chunks)

SelectChunks(processed_chunks) ==
    LET selected_chunks == SelectLoop(processed_chunks, 1, <<>>)
    IN  IF Len(selected_chunks) = 0
        THEN SubSeq(processed_chunks, 1, Min(FirstChunks, Len(processed_chunks)))
        ELSE selected_chunks

QuestionContext(selected_chunks) ==
    Join([i \in 1..Len(selected_chunks) |->
            "[SECTION " \o IntStr(i) \o ": " \o selected_chunks[i].section
            \o "]\n" \o Slice(selected_chunks[i].text, 0, ContextChunkLen)],
         "\n\n")

\* re.search of words separated by \s+ : parts[1] at offset i, then the rest
RECURSIVE PartsAt(_, _, _)
PartsAt(s, i, parts) ==
    /\ Slice(s, i, i + Len(parts[1])) = parts[1]
    /\ \/ Len(parts) = 1
       \/ \E j \in (i + Len(parts[1]) + 1)..Len(s) :
             /\ Slice(s, i + Len(parts[1]), j) # ""
             /\ AllSpace(Slice(s, i + Len(parts[1]), j))
             /\ PartsAt(s, j, Tail(parts))

SearchParts(s, parts) == \E i \in 0..Len(s) : PartsAt(s, i, parts)

invalid_patterns ==
    {<<"external", "knowledge">>, <<"outside", "the", "document">>,
     <<"research", "further">>, <<"google", "search">>,
     <<"additional", "sources">>}

MinQuestionLen == 10
QuestionOverlap == 2

is_valid_question(question, doc_chunks) ==
    LET question_lower == Lower(question)
        top == SubSeq(doc_chunks, 1, Min(FirstChunks, Len(doc_chunks)))
        doc_text == Lower(Join([i \in 1..Len(top) |-> top[i].text], " "))
    IN  /\ Len(question) >= MinQuestionLen
        /\ EndsWith(question, "?")
        /\ \A parts \in invalid_patterns : ~SearchParts(question_lower, parts)
        /\ Cardinality(WordSet(question_lower) \cap WordSet(doc_text))
             > QuestionOverlap

\* U+2022, the bullet of the fourth pattern, written as an ASCII character
Bullet == "@"

\* the length of the prefix ^\d+\. or ^\d+\) of line; 0 if there is none
NumberedPrefix(line, mark) ==
    LET ks == {k \in 2..Len(line) :
                  Char(line, k) = mark /\ AllDigits(Slice(line, 0, k - 1))}
    IN  IF ks = {} THEN 0 ELSE SetMin(ks)

\* (.+\?)\s*$ on the rest of a stripped line
QuestionTail(rest) == Len(rest) >= 2 /\ EndsWith(rest, "?")

\* the group of the first pattern that matches the line; "" if none matches
MatchQuestion(line) ==
    LET dot == NumberedPrefix(line, ".")
        paren == NumberedPrefix(line, ")")
    IN  IF dot > 0 /\ QuestionTail(SliceFrom(line, dot))
        THEN Strip(SliceFrom(line, dot))
        ELSE IF paren > 0 /\ QuestionTail(SliceFrom(line, paren))
        THEN Strip(SliceFrom(line, paren))
        ELSE IF StartsWith(line, "-") /\ QuestionTail(SliceFrom(line, 1))
        THEN Strip(SliceFrom(line, 1))
        ELSE IF StartsWith(line, Bullet) /\ QuestionTail(SliceFrom(line, 1))
        THEN Strip(SliceFrom(line, 1))
        ELSE IF QuestionTail(line) THEN Strip(line)
        ELSE ""

parse_and_validate_questions(response, doc_chunks) ==
    LET lines == SplitLines(Strip(response))
        found == [i \in 1..Len(lines) |-> MatchQuestion(Strip(lines[i]))]
    IN  FilterAt(found,
                 {i \in 1..Len(lines) :
                     /\ Strip(lines[i]) # ""
                     /\ found[i] # ""
                     /\ is_valid_question(found[i], doc_chunks)})

NoChunkQuestions ==
    <<"What are the main points discussed in this document?",
      "How are the different sections related to each other?",
      "What conclusions can be drawn from the content?">>

fallback_questions ==
    <<"What are the main themes or arguments presented in this document?",
      "What evidence or examples are provided to support the main points?",
      "What questions or implications does this document raise for further consideration?",
      "How might the information in this document be applied or interpreted?",
      "What connections can be made between different parts of this document?">>

StructureChunks == 10
KeyTermLen == 6
NamedSections == 3

IsAlpha(word) ==
    /\ Len(word) >= 1
    /\ \A i \in 1..Len(word) : Char(word, i) \in LowerLetters \cup UpperLetters

\* the distinct non-empty section names of the chunks, by first appearance
RECURSIVE SectionsLoop(_, _, _)
SectionsLoop(chunks, i, sections) ==
    IF i > Len(chunks) THEN sections
    ELSE IF /\ chunks[i].section # ""
            /\ \A j \in 1..Len(sections) : sections[j] # chunks[i].section
    THEN SectionsLoop(chunks, i + 1, Append(sections, chunks[i].section))
    ELSE SectionsLoop(chunks, i + 1, sections)

SectionsSeen(chunks) == SectionsLoop(chunks, 1, <<>>)

\* the fallback questions without the cut to num
generate_fallback_questions_uncut(doc_chunks, num, set_order) ==
    IF Len(doc_chunks) = 0 THEN NoChunkQuestions ELSE fallback_questions

\* generate_fallback_questions(doc_chunks, num): set_order is the order in
\* which list(sections) gives the set of section names, "fwd" or "rev" of
\* their first appearance
generate_fallback_questions(doc_chunks, num, set_order) ==
    IF Len(doc_chunks) = 0
    THEN SubSeq(NoChunkQuestions, 1, Min(num, Len(NoChunkQuestions)))
    ELSE
    LET top == SubSeq(doc_chunks, 1, Min(StructureChunks, Len(doc_chunks)))
        seen == SectionsSeen(top)
        sections == IF set_order = "fwd" THEN seen ELSE Reverse(seen)
        key_terms == UNION {{w \in WordSet(Lower(top[i].text)) :
                                Len(w) > KeyTermLen /\ IsAlpha(w)}
                            : i \in 1..Len(top)}
        q1 == IF Len(sections) > 1
              THEN <<"How do the different sections ("
                     \o Join(SubSeq(sections, 1, Min(NamedSections, Len(sections))), ", ")
                     \o ") relate to each other?">>
              ELSE <<>>
        q2 == IF key_terms # {}
              THEN <<"What is the significance of the key concepts discussed in this document?">>
              ELSE <<>>
        questions == q1 \o q2 \o fallback_questions
    IN  SubSeq(questions, 1, Min(num, Len(questions)))

\* the loop going on to the next attempt when too few questions are valid
RECURSIVE QuestionAttemptsRetrying(_, _, _, _, _, _, _)
QuestionAttemptsRetrying(attempt, outs, doc_chunks, selected_chunks, num, set_order, log) ==
    IF attempt >= max_retries
    THEN [ret |-> generate_fallback_questions(selected_chunks, num, set_order),
          log |-> log]
    ELSE
    LET out == outs[attempt + 1]
        log2 == Append(log, [prompt |-> "questions", outcome |-> out])
        response_text == extract_text_from_response(out)
        questions == parse_and_validate_questions(response_text, selected_chunks)
    IN  IF out.raises
        THEN IF attempt < max_retries - 1
             THEN QuestionAttemptsRetrying(attempt + 1, outs, doc_chunks,
                                           selected_chunks, num, set_order, log2)
             ELSE [ret |-> generate_fallback_questions(doc_chunks, num, set_order),
                   log |-> log2]
        ELSE IF NonEmpty(response_text) /\ Len(questions) >= num
        THEN [ret |-> SubSeq(questions, 1, num), log |-> log2]
        ELSE QuestionAttemptsRetrying(attempt + 1, outs, doc_chunks,
                                      selected_chunks, num, set_order, log2)

\* for attempt in range(max_retries) of generate_challenge_questions
RECURSIVE QuestionAttempts(_, _, _, _, _, _, _)
QuestionAttempts(attempt, outs, doc_chunks, selected_chunks, num, set_order, log) ==
    IF attempt >= max_retries
    THEN [ret |-> generate_fallback_questions(selected_chunks, num, set_order),
          log |-> log]
    ELSE
    LET out == outs[attempt + 1]
        log2 == Append(log, [prompt |-> "questions", outcome |-> out])
        response_text == extract_text_from_response(out)
        questions == parse_and_validate_questions(response_text, selected_chunks)
    IN  IF out.raises
        THEN IF attempt < max_retries - 1
             THEN QuestionAttempts(attempt + 1, outs, doc_chunks, selected_chunks,
                                   num, set_order, log2)
             ELSE [ret |-> generate_fallback_questions(doc_chunks, num, set_order),
                   log |-> log2]
        ELSE IF NonEmpty(response_text) /\ Len(questions) >= num
        THEN [ret |-> SubSeq(questions, 1, num), log |-> log2]
        ELSE IF NonEmpty(response_text) /\ Len(questions) > 0
        THEN [ret |-> questions \o
                      generate_fallback_questions(selected_chunks,
                                                  num - Len(questions), set_order),
              log |-> log2]
        ELSE QuestionAttempts(attempt + 1, outs, doc_chunks, selected_chunks,
                              num, set_order, log2)

DefaultNum == 3

\* generate_challenge_questions(doc_chunks, num): ext is [init, outs, set_order];
\* selected is the value of selected_chunks, <<>> when get_llm raised before it
generate_challenge_questions(doc_chunks, num, ext) ==
    LET llm == quiz_get_llm(ext.init)
        selected_chunks == SelectChunks(doc_chunks)
        r == QuestionAttempts(0, ext.outs, doc_chunks, selected_chunks, num,
                              ext.set_order, <<>>)
    IN  IF llm.raises
        THEN [ret |-> generate_fallback_questions(doc_chunks, num, ext.set_order),
              log |-> <<>>, selected |-> <<>>]
        ELSE [ret |-> r.ret, log |-> r.log, selected |-> selected_chunks]

-----------------------------------------------------------------------------
(* logic_quiz.py: answer evaluation *)

EvalChunkLen == 300
EvalContextLimit == 1800

EvalContext(chunks) ==
    LET context_parts ==
            [i \in 1..Len(chunks) |->
                "[SOURCE " \o IntStr(i) \o " - " \o chunks[i].metadata.section
                \o ", Para " \o IntStr(chunks[i].metadata.paragraph) \o "]\n"
                \o Slice(chunks[i].page_content, 0, EvalChunkLen)]
        context == Join(context_parts, "\n\n")
    IN  IF Len(context) > EvalContextLimit
        THEN Slice(context, 0, EvalContextLimit) \o "..."
        ELSE context

EvalContextOverlap == 5
EvalAnswerOverlap == 3

is_evaluation_grounded(evaluation, context, user_answer) ==
    \/ Contains(Upper(evaluation), "SOURCE")
    \/ Contains(Upper(evaluation), "SECTION")
    \/ LET eval_words == WordSet(Lower(evaluation))
       IN  /\ Cardinality(eval_words \cap WordSet(Lower(context)))
                > EvalContextOverlap
           /\ Cardinality(eval_words \cap WordSet(Lower(user_answer)))
                > EvalAnswerOverlap

BriefAnswerLen == 5
EvalTopChunks == 3
GoodOverlap == 10
SomeOverlap == 5
ShortWords == 20
LongWords == 150

BriefFeedback ==
    "Your answer is very brief. Please provide more detail and explanation based on the document content."
GoodEngagement == "Your answer shows good engagement with the document content. "
SomeConnection == "Your answer has some connection to the document content. "
MoreDetails == "Consider referencing more specific details from the document. "
AddDetail == "Try to provide more detailed explanations and examples from the document."
Comprehensive == "Good detail in your response - you've provided comprehensive coverage."
GoodLength == "Good length for your response."

\* the overlap of the answer's words with the words of the top 3 chunks
EvalOverlap(user_answer, chunks) ==
    LET top == SubSeq(chunks, 1, Min(EvalTopChunks, Len(chunks)))
        doc_content == Join([i \in 1..Len(top) |-> top[i].page_content \o " "], "")
    IN  Cardinality(WordSet(Lower(user_answer)) \cap WordSet(Lower(doc_content)))

generate_fallback_evaluation(user_answer, chunks) ==
    IF user_answer = "" \/ Len(Strip(user_answer)) < BriefAnswerLen
    THEN BriefFeedback
    ELSE
    LET word_count == WordCount(user_answer)
        overlap == EvalOverlap(user_answer, chunks)
    IN  "Thank you for your " \o IntStr(word_count) \o "-word response. "
        \o (IF Len(chunks) = 0 THEN ""
            ELSE IF overlap > GoodOverlap THEN GoodEngagement
            ELSE IF overlap > SomeOverlap THEN SomeConnection
            ELSE MoreDetails)
        \o (IF word_count < ShortWords THEN AddDetail
            ELSE IF word_count > LongWords THEN Comprehensive
            ELSE GoodLength)

NothingToEvaluate ==
    "I cannot evaluate your answer as no relevant document content was found for this question."

\* for attempt in range(max_retries) of evaluate_user_answer
RECURSIVE EvalAttempts(_, _, _, _, _, _)
EvalAttempts(attempt, outs, user_answer, chunks, context, log) ==
    IF attempt >= max_retries
    THEN [ret |-> generate_fallback_evaluation(user_answer, chunks), log |-> log]
    ELSE
    LET out == outs[attempt + 1]
        log2 == Append(log, [prompt |-> "evaluate", outcome |-> out])
        response_text == extract_text_from_response(out)
    IN  IF out.raises
        THEN IF attempt < max_retries - 1
             THEN EvalAttempts(attempt + 1, outs, user_answer, chunks, context, log2)
             ELSE [ret |-> generate_fallback_evaluation(user_answer, <<>>),
                   log |-> log2]
        ELSE IF NonEmpty(response_text)
        THEN IF is_evaluation_grounded(response_text, context, user_answer)
             THEN [ret |-> Strip(response_text), log |-> log2]
             ELSE [ret |-> generate_fallback_evaluation(user_answer, chunks),
                   log |-> log2]
        ELSE EvalAttempts(attempt + 1, outs, user_answer, chunks, context, log2)

\* evaluate_user_answer(question, user_answer): ext is [load_ok, search, init, outs]
evaluate_user_answer(index, user_answer, ext) ==
    LET chunks == retrieve_relevant_chunks(index, DefaultK, ext.load_ok, ext.search)
        llm == quiz_get_llm(ext.init)
    IN  IF Len(chunks) = 0 THEN [ret |-> NothingToEvaluate, log |-> <<>>]
        ELSE IF llm.raises
        THEN [ret |-> generate_fallback_evaluation(user_answer, <<>>), log |-> <<>>]
        ELSE EvalAttempts(0, ext.outs, user_answer, chunks, EvalContext(chunks), <<>>)

-----------------------------------------------------------------------------
(* The documents, queries and collaborator behaviours used as inputs *)

IntroText == "the quick brown fox jumps over the lazy dog near the river bank"
MethodsText == "we measured the speed of every animal with a radar device"
ResultsText == "the treatment group improved by twenty percent overall"

DocA == "Introduction\n" \o IntroText \o "\n\n2. METHODS\n" \o MethodsText \o "\n"
DocC == "Results\n" \o ResultsText
DocShort == "Introduction\ntoo short\n"

Page(text) == [raises |-> FALSE, text |-> text]
BadPage == [raises |-> TRUE, text |-> ""]

NoUpload == [present |-> FALSE, file |-> TxtFile("", "")]
Upload(file) == [present |-> TRUE, file |-> file]

Uploads ==
    {NoUpload,
     Upload(TxtFile("", DocA)),
     Upload(TxtFile("table.csv", DocA)),
     Upload(TxtFile("REPORT.PDF", DocA)),
     Upload(TxtFile("a.txt", DocA)),
     Upload(TxtFile("short.txt", DocShort)),
     Upload(TxtFile("blank.txt", " \n ")),
     Upload(TxtFile("heads.txt", "Abstract\n1.2 Scope\n")),
     Upload(PdfFile("c.pdf", FALSE, TRUE, <<BadPage, Page(" \n"), Page(DocC)>>)),
     Upload(PdfFile("scan.pdf", FALSE, TRUE, <<Page(""), BadPage>>)),
     Upload(PdfFile("broken.pdf", FALSE, FALSE, <<>>))}

ServerSplits == {<<chunk_size, chunk_overlap>>, <<0, 0>>}
SummaryText == "A summary of the document."

InitOk == [token |-> TRUE, construct |-> TRUE, test |-> Returned("ok")]
InitNoToken == [token |-> FALSE, construct |-> TRUE, test |-> Returned("ok")]
InitNoEndpoint == [token |-> TRUE, construct |-> FALSE, test |-> Returned("ok")]
InitTestRaises == [token |-> TRUE, construct |-> TRUE, test |-> Raised]
InitTestEmpty == [token |-> TRUE, construct |-> TRUE, test |-> Returned(" ")]

GroundedBySource == "According to SOURCE 1 the fox jumps."
GroundedByWords == "the fox jumps over"
Ungrounded == "the fox jumps high"
Unrelated == "Paris is the capital of France."

Same(out) == <<out, out, out>>

-----------------------------------------------------------------------------
(* app.py: the handlers *)

NumWorkers == 2
Workers == 1..NumWorkers

NoResult ==
    [sections |-> <<>>, chunks |-> <<>>, summary |-> "",
     stats |-> [total_chunks |-> 0, total_sections |-> 0, total_text_length |-> 0]]
Idle == [pc |-> "idle", filename |-> "", result |-> NoResult]

NoResponse == [endpoint |-> "none", status |-> 0, error |-> ""]
NoCall == [fn |-> "none"]

Busy == {w \in Workers : workers[w].pc # "idle"}

\* the server hands a request to any free thread: which one does not matter,
\* so it is the first
FirstIdle(w) ==
    /\ workers[w].pc = "idle"
    /\ \A v \in Workers : v < w => workers[v].pc # "idle"

\* a /process that appends the new document's chunks to the live ones
ProcessBeginMerging(w, upload, split, summary) ==
    LET file == upload.file
        r == process_document(file, split, summary)
    IN  /\ workers[w].pc = "idle"
        /\ http = NoResponse
        /\ overlapped' = (overlapped \/ Busy # {})
        /\ UNCHANGED <<faiss_index, build_failed, call>>
        /\ IF \/ ~upload.present
              \/ ~(EndsWith(file.filename, ".pdf") \/ EndsWith(file.filename, ".txt"))
              \/ r.raises
           THEN /\ http' = [endpoint |-> "/process", status |-> 400,
                            error |-> "rejected", filename |-> file.filename,
                            parser |-> "none"]
                /\ UNCHANGED <<document_chunks, workers>>
           ELSE /\ document_chunks' = document_chunks \o r.value.chunks
                /\ workers' = [workers EXCEPT ![w] =
                                 [pc |-> "build", filename |-> file.filename,
                                  result |-> r.value]]
                /\ http' = http

\* /process up to `document_chunks = result.get("chunks", [])`: the checks of
\* the upload, process_document and the assignment of the global
ProcessBegin(w, upload, split, summary) ==
    LET file == upload.file
        r == process_document(file, split, summary)
        Reject(status, error, parser) ==
            /\ http' = [endpoint |-> "/process", status |-> status, error |-> error,
                        filename |-> file.filename, parser |-> parser]
            /\ UNCHANGED <<document_chunks, workers>>
    IN  /\ workers[w].pc = "idle"
        /\ http = NoResponse
        /\ overlapped' = (overlapped \/ Busy # {})
        /\ UNCHANGED <<faiss_index, build_failed, call>>
        /\ IF ~upload.present THEN Reject(400, "No file uploaded", "none")
           ELSE IF file.filename = "" THEN Reject(400, "No filename provided", "none")
           ELSE IF ~(EndsWith(file.filename, ".pdf") \/ EndsWith(file.filename, ".txt"))
           THEN Reject(400, "Only PDF and TXT files are supported", "none")
           ELSE IF r.raises THEN Reject(400, r.error, r.parser)
           ELSE /\ document_chunks' = r.value.chunks
                /\ workers' = [workers EXCEPT ![w] =
                                 [pc |-> "build", filename |-> file.filename,
                                  result |-> r.value]]
                /\ http' = http

\* /process from `# Build vector store` to the response
ProcessBuild(w, embed_ok) ==
    LET result == workers[w].result
        b == build_vector_store(result.chunks, embed_ok, faiss_index)
    IN  /\ workers[w].pc = "build"
        /\ http = NoResponse
        /\ faiss_index' = IF Len(result.chunks) > 0 THEN b.index ELSE faiss_index
        /\ http' = [endpoint |-> "/process", status |-> 200, error |-> "",
                    filename |-> workers[w].filename,
                    chunks |-> result.chunks,
                    sections |-> result.sections,
                    vector_store_status |->
                        IF Len(result.chunks) = 0 THEN "no_chunks"
                        ELSE IF b.raises THEN "failed" ELSE "success",
                    vector_store_error |->
                        IF Len(result.chunks) > 0 /\ b.raises THEN b.error ELSE "",
                    total_chunks |-> Len(document_chunks)]
        /\ workers' = [workers EXCEPT ![w] = Idle]
        /\ build_failed' = (build_failed \/ (Len(result.chunks) > 0 /\ b.raises))
        /\ UNCHANGED <<document_chunks, overlapped, call>>

\* the client takes the response
Deliver ==
    /\ http # NoResponse
    /\ http' = NoResponse
    /\ UNCHANGED <<document_chunks, faiss_index, workers, overlapped, build_failed, call>>

Ext(load_ok, search, init, outs) ==
    [load_ok |-> load_ok, search |-> search, init |-> init, outs |-> outs]

\* what the collaborators do during one request to the server
ServerExts ==
    {Ext(TRUE, search, InitOk, Same(out)) :
        search \in {<<TRUE, "fwd", DefaultK>>, <<TRUE, "rev", 1>>, <<TRUE, "fwd", 0>>},
        out \in {Raised, Returned(GroundedBySource)}}
    \cup {Ext(TRUE, <<TRUE, "fwd", DefaultK>>, InitOk, Same(Returned(Ungrounded))),
          Ext(TRUE, <<TRUE, "fwd", DefaultK>>, InitNoToken, Same(Raised)),
          Ext(FALSE, <<TRUE, "fwd", DefaultK>>, InitOk, Same(Raised)),
          Ext(TRUE, <<FALSE, "fwd", 0>>, InitOk, Same(Raised))}

Question == "what does the fox do near the river?"
Queries == {"", "  ", Question}
Answers == {"", " \n", "the fox jumps over the lazy dog"}

\* /ask: data is the JSON body, [json, query]
Ask(data, ext) ==
    LET r == generate_answer_with_sources(faiss_index, DefaultK, ext)
    IN  /\ http = NoResponse
        /\ http' =
             IF ~data.json
             THEN [endpoint |-> "/ask", status |-> 400,
                   error |-> "No JSON data provided"]
             ELSE IF data.query = "" \/ Strip(data.query) = ""
             THEN [endpoint |-> "/ask", status |-> 400,
                   error |-> "Query is required and cannot be empty"]
             ELSE [endpoint |-> "/ask", status |-> 200, error |-> "",
                   answer |-> r.ret.answer, sources |-> r.ret.sources,
                   confidence |-> r.ret.confidence, query |-> data.query,
                   response_type |-> "qa", log |-> r.log]
        /\ UNCHANGED <<document_chunks, faiss_index, workers, overlapped, build_failed, call>>

\* a /challenge/init that keeps the chunks of the request as the live ones
ChallengeInitStoring(request_chunks, ext) ==
    LET chunks == IF Len(document_chunks) > 0 THEN document_chunks
                  ELSE request_chunks
    IN  /\ http = NoResponse
        /\ http' = [endpoint |-> "/challenge/init",
                    status |-> IF Len(chunks) = 0 THEN 400 ELSE 200,
                    error |-> ""]
        /\ document_chunks' = chunks
        /\ UNCHANGED <<faiss_index, workers, overlapped, build_failed, call>>

\* /challenge/init: request_chunks is data.get("chunks"), <<>> if there is none
\* /challenge/init taking the chunks of the request before the stored ones
ChallengeInitFromRequest(request_chunks, ext) ==
    LET chunks == IF Len(request_chunks) > 0 THEN request_chunks
                  ELSE document_chunks
        r == generate_challenge_questions(chunks, DefaultNum,
                [init |-> ext.init, outs |-> ext.outs, set_order |-> ext.search[2]])
    IN  /\ http = NoResponse
        /\ http' =
             IF Len(chunks) = 0
             THEN [endpoint |-> "/challenge/init", status |-> 400,
                   error |-> "No document chunks available. Please process a document first.",
                   request |-> request_chunks, used |-> <<>>, log |-> <<>>]
             ELSE [endpoint |-> "/challenge/init", status |-> 200, error |-> "",
                   questions |-> r.ret, total_questions |-> Len(r.ret),
                   document_chunks |-> Len(chunks),
                   request |-> request_chunks, used |-> chunks, log |-> r.log]
        /\ UNCHANGED <<document_chunks, faiss_index, workers, overlapped, build_failed, call>>

\* /challenge/init; the response carries the chunks of the request, the chunks
\* the questions were generated from and the invocations of the model
ChallengeInit(request_chunks, ext) ==
    LET chunks == IF Len(document_chunks) > 0 THEN document_chunks
                  ELSE request_chunks
        r == generate_challenge_questions(chunks, DefaultNum,
                [init |-> ext.init, outs |-> ext.outs, set_order |-> ext.search[2]])
    IN  /\ http = NoResponse
        /\ http' =
             IF Len(chunks) = 0
             THEN [endpoint |-> "/challenge/init", status |-> 400,
                   error |-> "No document chunks available. Please process a document first.",
                   request |-> request_chunks, used |-> <<>>, log |-> <<>>]
             ELSE IF Len(r.ret) = 0
             THEN [endpoint |-> "/challenge/init", status |-> 500,
                   error |-> "Failed to generate challenge questions",
                   request |-> request_chunks, used |-> chunks, log |-> r.log]
             ELSE [endpoint |-> "/challenge/init", status |-> 200, error |-> "",
                   questions |-> r.ret, total_questions |-> Len(r.ret),
                   document_chunks |-> Len(chunks),
                   request |-> request_chunks, used |-> chunks, log |-> r.log]
        /\ UNCHANGED <<document_chunks, faiss_index, workers, overlapped, build_failed, call>>

\* /challenge/evaluate: data is the JSON body, [json, question, answer]
ChallengeEvaluate(data, ext) ==
    LET r == evaluate_user_answer(faiss_index, data.answer, ext)
    IN  /\ http = NoResponse
        /\ http' =
             IF ~data.json
             THEN [endpoint |-> "/challenge/evaluate", status |-> 400,
                   error |-> "No JSON data provided"]
             ELSE IF data.question = "" \/ Strip(data.question) = ""
             THEN [endpoint |-> "/challenge/evaluate", status |-> 400,
                   error |-> "Question is required and cannot be empty"]
             ELSE IF data.answer = "" \/ Strip(data.answer) = ""
             THEN [endpoint |-> "/challenge/evaluate", status |-> 400,
                   error |-> "Answer is required and cannot be empty"]
             ELSE IF r.ret = ""
             THEN [endpoint |-> "/challenge/evaluate", status |-> 500,
                   error |-> "Failed to generate evaluation feedback", log |-> r.log]
             ELSE [endpoint |-> "/challenge/evaluate", status |-> 200, error |-> "",
                   feedback |-> r.ret, question |-> data.question,
                   user_answer |-> data.answer, log |-> r.log]
        /\ UNCHANGED <<document_chunks, faiss_index, workers, overlapped, build_failed, call>>

\* sum of len(chunk["text"])
RECURSIVE TotalChars(_)
TotalChars(chunks) ==
    IF Len(chunks) = 0 THEN 0 ELSE Len(chunks[1].text) + TotalChars(Tail(chunks))

\* /document/info
DocumentInfo ==
    /\ http = NoResponse
    /\ http' =
         IF Len(document_chunks) = 0
         THEN [endpoint |-> "/document/info", status |-> 400,
               error |-> "No document currently processed"]
         ELSE [endpoint |-> "/document/info", status |-> 200, error |-> "",
               total_chunks |-> Len(document_chunks),
               sections |-> {document_chunks[i].section :
                                i \in 1..Len(document_chunks)},
               total_characters |-> TotalChars(document_chunks),
               average_chunk_size |->
                   TotalChars(document_chunks) \div Len(document_chunks)]
    /\ UNCHANGED <<document_chunks, faiss_index, workers, overlapped, build_failed, call>>

\* /health
Health ==
    /\ http = NoResponse
    /\ http' = [endpoint |-> "/health", status |-> 200, error |-> "",
                vector_store |-> IF faiss_index.exists THEN "available"
                                 ELSE "not_built",
                document |-> IF Len(document_chunks) > 0
                             THEN "loaded_" \o IntStr(Len(document_chunks)) \o "_chunks"
                             ELSE "none"]
    /\ UNCHANGED <<document_chunks, faiss_index, workers, overlapped, build_failed, call>>

RequestChunks ==
    {<<>>, <<[section |-> "Notes", paragraph |-> 1,
              text |-> "plain notes about gardening tomatoes and peppers in summer"]>>}

Init ==
    /\ document_chunks = <<>>
    /\ faiss_index = NoIndex
    /\ workers = [w \in Workers |-> Idle]
    /\ overlapped = FALSE
    /\ build_failed = FALSE
    /\ http = NoResponse
    /\ call = NoCall

Next ==
    \/ \E w \in Workers, upload \in Uploads, split \in ServerSplits :
          FirstIdle(w) /\ ProcessBegin(w, upload, split, SummaryText)
    \/ \E w \in Workers, embed_ok \in BOOLEAN : ProcessBuild(w, embed_ok)
    \/ \E query \in Queries, ext \in ServerExts :
          Ask([json |-> TRUE, query |-> query], ext)
    \/ \E ext \in ServerExts : Ask([json |-> FALSE, query |-> ""], ext)
    \/ \E request_chunks \in RequestChunks, ext \in ServerExts :
          ChallengeInit(request_chunks, ext)
    \/ \E answer \in Answers, ext \in ServerExts :
          ChallengeEvaluate([json |-> TRUE, question |-> Question, answer |-> answer], ext)
    \/ DocumentInfo
    \/ Health
    \/ Deliver

Spec == Init /\ [][Next]_vars

-----------------------------------------------------------------------------
(* Direct calls of the functions of processor.py *)

MaxLines == 4
MaxUnits == 120

LineKinds == {"", "Introduction", "2. METHODS", "alpha beta", "  gamma delta "}

\* texts of up to MaxLines lines
SectionedTexts ==
    {Join(ls, "\n") : ls \in UNION {[1..n -> LineKinds] : n \in 0..MaxLines}}

\* section texts of 0 to 7 * MaxUnits + 2 characters
ChunkTexts ==
    {pad \o Repeat("abcde f", n) : pad \in {"", "  "}, n \in 0..MaxUnits}

\* a document of two sections of several chunks each
DocLong ==
    "Results\n" \o Repeat("lorem ipsum dolor sit amet ", 16)
    \o "\nDiscussion\n" \o Repeat("consectetur adipiscing elit ", 9) \o "\n"
LongUpload == Upload(TxtFile("long.txt", DocLong))

\* a document without any header line
PlainUpload == Upload(TxtFile("plain.txt", "\n" \o IntroText \o "\n\n" \o MethodsText))

Return ==
    /\ call # NoCall
    /\ call' = NoCall
    /\ UNCHANGED <<document_chunks, faiss_index, workers, overlapped, build_failed, http>>

SplitCall(text) ==
    /\ call = NoCall
    /\ call' = [fn |-> "split_into_sections", text |-> text,
                ret |-> split_into_sections(text)]
    /\ UNCHANGED <<document_chunks, faiss_index, workers, overlapped, build_failed, http>>

ChunkCall(section_text, split) ==
    /\ call = NoCall
    /\ call' = [fn |-> "chunk_section", text |-> section_text, split |-> split,
                ret |-> chunk_section(section_text, split)]
    /\ UNCHANGED <<document_chunks, faiss_index, workers, overlapped, build_failed, http>>

ProcessCall(file, split) ==
    /\ call = NoCall
    /\ call' = [fn |-> "process_document", file |-> file, split |-> split,
                ret |-> process_document(file, split, SummaryText)]
    /\ UNCHANGED <<document_chunks, faiss_index, workers, overlapped, build_failed, http>>

NextProc ==
    \/ \E text \in SectionedTexts : SplitCall(text)
    \/ \E text \in ChunkTexts, split \in SplitBehaviours : ChunkCall(text, split)
    \/ \E upload \in Uploads \cup {LongUpload, PlainUpload}, split \in SplitBehaviours :
          ProcessCall(upload.file, split)
    \/ Return

SpecProc == Init /\ [][NextProc]_vars

-----------------------------------------------------------------------------
(* Direct calls of the functions of qa_engine.py *)

ChunksOf(text) ==
    process_document(TxtFile("d.txt", text), <<chunk_size, chunk_overlap>>,
                     SummaryText).value.chunks

LongText == Repeat("lorem ipsum dolor sit amet ", 16)
LongChunks ==
    [i \in 1..6 |-> [section |-> "Results", paragraph |-> i, text |-> LongText]]
BlankChunks == <<[section |-> "Notes", paragraph |-> 1, text |-> "  "]>>

ChunkLists == {<<>>, BlankChunks, ChunksOf(DocA), ChunksOf(DocC), LongChunks}

AttemptOutcomes ==
    {Raised, Returned(""), Returned(" \n"), Returned(GroundedBySource),
     Returned(GroundedByWords), Returned(Ungrounded),
     Structured(GroundedBySource, "content")}

Inits == {InitOk, InitNoToken, InitNoEndpoint, InitTestRaises, InitTestEmpty}

\* what the collaborators do during one call
QAExts ==
    {Ext(TRUE, search, InitOk, outs) :
        search \in {<<TRUE, "fwd", DefaultK>>, <<TRUE, "rev", 1>>},
        outs \in [1..max_retries -> AttemptOutcomes]}
    \cup
    {Ext(load_ok, search, init, Same(out)) :
        load_ok \in BOOLEAN, search \in SearchOutcomes(DefaultK),
        init \in Inits, out \in AttemptOutcomes}

BuildCall(chunks, embed_ok) ==
    LET r == build_vector_store(chunks, embed_ok, faiss_index)
    IN  /\ call = NoCall
        /\ call' = [fn |-> "build_vector_store", chunks |-> chunks,
                    raises |-> r.raises, error |-> r.error]
        /\ faiss_index' = r.index
        /\ UNCHANGED <<document_chunks, workers, overlapped, build_failed, http>>

RetrieveCall(k, ext) ==
    /\ call = NoCall
    /\ call' = [fn |-> "retrieve_relevant_chunks", k |-> k, ext |-> ext,
                ret |-> retrieve_relevant_chunks(faiss_index, k, ext.load_ok,
                                                 ext.search)]
    /\ UNCHANGED <<document_chunks, faiss_index, workers, overlapped, build_failed, http>>

AnswerCall(k, ext) ==
    LET r == generate_answer_with_sources(faiss_index, k, ext)
    IN  /\ call = NoCall
        /\ call' = [fn |-> "generate_answer_with_sources", k |-> k, ext |-> ext,
                    ret |-> r.ret, log |-> r.log]
        /\ UNCHANGED <<document_chunks, faiss_index, workers, overlapped, build_failed, http>>

NextQA ==
    \/ \E chunks \in ChunkLists, embed_ok \in BOOLEAN : BuildCall(chunks, embed_ok)
    \/ \E ext \in QAExts : RetrieveCall(DefaultK, ext)
    \/ \E ext \in QAExts : AnswerCall(DefaultK, ext)
    \/ Return

SpecQA == Init /\ [][NextQA]_vars

-----------------------------------------------------------------------------
(* Direct calls of the functions of logic_quiz.py *)

MaxNum == 8

ThreeQuestions ==
    "1. What does the quick brown fox jump over near the river bank?\n"
    \o "2. How was the speed of every animal measured with the radar device?\n"
    \o "3. Why is the lazy dog resting near the river bank?"
OneQuestion == "1. What does the quick brown fox jump over near the river bank?"

QuestionOutcomes ==
    {Same(Raised), Same(Returned("")), Same(Returned(ThreeQuestions)),
     Same(Returned(OneQuestion)), Same(Structured(ThreeQuestions, "content")),
     <<Raised, Returned(" "), Returned(ThreeQuestions)>>,
     <<Returned(Unrelated), Raised, Raised>>}

\* one chunk of one section with no word of more than 6 letters
IntroChunks == <<[section |-> "Introduction", paragraph |-> 1, text |-> IntroText]>>

\* ten chunks of nine sections, the first section holding two of them
ManySections ==
    [i \in 1..10 |->
        [section |-> "Part " \o IntStr(IF i = 1 THEN 1 ELSE i - 1),
         paragraph |-> (IF i = 2 THEN 2 ELSE 1),
         text |-> "notes of chunk " \o IntStr(i)]]

QuizChunkLists ==
    {<<>>, ChunksOf(DocA), ChunksOf(DocC), LongChunks, IntroChunks, ManySections,
     <<[section |-> "Notes", paragraph |-> 1, text |-> "a b c"]>>}

QuizAnswers ==
    {"", " \n", "ok", "the fox jumps over the lazy dog",
     "the fox jumps over one dog", "nothing to say here",
     "the quick brown fox jumps over the lazy dog near the river bank today"}

GoodEvaluation ==
    "As SOURCE 1 says, the fox jumps over the lazy dog; your answer is right."

EvalOutcomes ==
    {Same(Raised), Same(Returned("")), Same(Returned(GoodEvaluation)),
     Same(Returned(Unrelated)), <<Raised, Returned(" "), Returned(GoodEvaluation)>>,
     <<Returned(Unrelated), Returned(GoodEvaluation), Raised>>}

GenerateCall(doc_chunks, num, ext) ==
    LET r == generate_challenge_questions(doc_chunks, num, ext)
    IN  /\ call = NoCall
        /\ call' = [fn |-> "generate_challenge_questions",
                    doc_chunks |-> doc_chunks, num |-> num, ext |-> ext,
                    ret |-> r.ret, log |-> r.log, selected |-> r.selected]
        /\ UNCHANGED <<document_chunks, faiss_index, workers, overlapped, build_failed, http>>

EvaluateCall(user_answer, ext) ==
    LET r == evaluate_user_answer(faiss_index, user_answer, ext)
    IN  /\ call = NoCall
        /\ call' = [fn |-> "evaluate_user_answer", user_answer |-> user_answer,
                    ext |-> ext, ret |-> r.ret, log |-> r.log]
        /\ UNCHANGED <<document_chunks, faiss_index, workers, overlapped, build_failed, http>>

\* the model answers in each of the ways listed, or cannot be initialised
QuizExts(outcomes) ==
    {[init |-> InitOk, outs |-> outs] : outs \in outcomes}
    \cup {[init |-> init, outs |-> Same(Raised)] :
            init \in {InitNoToken, InitNoEndpoint}}

NextQuiz ==
    \/ \E chunks \in ChunkLists : BuildCall(chunks, TRUE)
    \/ \E doc_chunks \in QuizChunkLists, num \in 1..MaxNum,
          e \in QuizExts(QuestionOutcomes), set_order \in {"fwd", "rev"} :
          GenerateCall(doc_chunks, num,
                       [init |-> e.init, outs |-> e.outs, set_order |-> set_order])
    \/ \E user_answer \in QuizAnswers, e \in QuizExts(EvalOutcomes),
          search \in {<<TRUE, "fwd", DefaultK>>, <<TRUE, "fwd", 0>>,
                      <<FALSE, "fwd", 0>>} :
          EvaluateCall(user_answer, Ext(TRUE, search, e.init, e.outs))
    \/ Return

SpecQuiz == Init /\ [][NextQuiz]_vars

\* generate_fallback_questions called directly; prior holds the result of the
\* invocation before, on the same arguments
FallbackCall(doc_chunks, num, set_order) ==
    /\ call = NoCall
    /\ call' = [fn |-> "generate_fallback_questions", doc_chunks |-> doc_chunks,
                num |-> num, prior |-> <<>>,
                ret |-> generate_fallback_questions(doc_chunks, num, set_order)]
    /\ UNCHANGED <<document_chunks, faiss_index, workers, overlapped, build_failed, http>>

\* the function invoked once more on the same chunk list and the same num
FallbackAgain(set_order) ==
    /\ call # NoCall
    /\ call.fn = "generate_fallback_questions"
    /\ call.prior = <<>>
    /\ call' = [call EXCEPT
                  !.prior = <<call.ret>>,
                  !.ret = generate_fallback_questions(call.doc_chunks, call.num,
                                                      set_order)]
    /\ UNCHANGED <<document_chunks, faiss_index, workers, overlapped, build_failed, http>>

NextFallback ==
    \/ \E doc_chunks \in QuizChunkLists, num \in 1..MaxNum,
          set_order \in {"fwd", "rev"} : FallbackCall(doc_chunks, num, set_order)
    \/ \E set_order \in {"fwd", "rev"} : FallbackAgain(set_order)
    \/ Return

SpecFallback == Init /\ [][NextFallback]_vars

\* the functions that call the generative model, of both files
NextModelCalls == NextQA \/ NextQuiz

SpecModelCalls == Init /\ [][NextModelCalls]_vars

-----------------------------------------------------------------------------
(* Claims about processor.py *)

IsCall(fn) == call # NoCall /\ call.fn = fn

\* the lines of a text that are neither blank nor a header
BodyLines(text) ==
    LET lines == SplitLines(text)
    IN  {Strip(lines[i]) : i \in {j \in 1..Len(lines) :
            Strip(lines[j]) # "" /\ MatchedHeader(Strip(lines[j])) = 0}}

\* the lines of the texts of the sections
KeptLines(sections) ==
    UNION {LET lines == SplitLines(sections.val[i])
           IN  {Strip(lines[j]) : j \in 1..Len(lines)}
           : i \in 1..Len(sections.keys)}

\* C8: every non-blank line of the input that is not a header appears in the
\* text of some section returned by split_into_sections, also when a header
\* name occurs on more than one line.
C8_NoLineLost ==
    IsCall("split_into_sections") =>
        BodyLines(call.text) \subseteq KeptLines(call.ret)

\* C9: every chunk chunk_section returns, on the splitter path and on the
\* fixed-stride path, has trimmed length greater than 30.
C9_ChunksLongEnough ==
    IsCall("chunk_section") =>
        \A i \in 1..Len(call.ret) : Len(Strip(call.ret[i])) > 30

OnFallbackPath ==
    IsCall("chunk_section") /\ call.split[1] = 0 /\ Strip(call.text) # ""

\* C10 as stated: on the fixed-stride path the chunks are the windows of 500
\* characters at offsets 0, 400, 800, ... < L, and every chunk but the last
\* has exactly 500 characters.
C10_AllButLastFull ==
    OnFallbackPath =>
        /\ \A k \in 1..Len(call.ret) :
              call.ret[k] = Slice(call.text, 400 * (k - 1), 400 * (k - 1) + 500)
        /\ \A k \in 1..(Len(call.ret) - 1) : Len(call.ret[k]) = 500

\* C10 as amended: on the fixed-stride path there is one chunk per offset
\* 0, 400, 800, ... < L, chunk k is the text from offset 400 (k - 1) up to 500
\* characters, and every chunk but the last two has exactly 500 characters.
C10_Windows ==
    OnFallbackPath =>
        LET L == Len(call.text)
            n == Len(call.ret)
        IN  /\ 400 * (n - 1) < L /\ L <= 400 * n
            /\ \A k \in 1..n :
                  /\ call.ret[k] = Slice(call.text, 400 * (k - 1), 400 * (k - 1) + 500)
                  /\ Len(call.ret[k]) = Min(500, L - 400 * (k - 1))
            /\ \A k \in 1..(n - 2) : Len(call.ret[k]) = 500

\* a fixed-stride call with at least three chunks, the last but one short
C10_Witness ==
    /\ OnFallbackPath
    /\ Len(call.ret) >= 3
    /\ Len(call.ret[Len(call.ret) - 1]) < 500

-----------------------------------------------------------------------------
(* Claims about app.py *)

\* C1: after sequential requests, with no /process in progress and a
\* non-empty document_chunks, the persisted index is the one built from
\* exactly document_chunks.
C1_IndexMatchesChunks ==
    (~overlapped /\ Busy = {} /\ document_chunks # <<>>) =>
        /\ faiss_index.exists
        /\ faiss_index.docs = IndexDocs(document_chunks)

\* C2: while no persisted index exists, /ask given a query does not return
\* an answer result: it responds 400 "No document has been processed yet".
C2_AskWithoutIndexFails ==
    (http.endpoint = "/ask" /\ ~faiss_index.exists
        /\ http.error # "No JSON data provided"
        /\ http.error # "Query is required and cannot be empty") =>
        /\ http.status = 400
        /\ http.error =
             "No document has been processed yet. Please upload a document first."

-----------------------------------------------------------------------------
(* Claims about qa_engine.py *)

Answered == IsCall("generate_answer_with_sources")

\* the index loaded and the search returned
Searched == Answered /\ faiss_index.exists /\ call.ext.load_ok /\ call.ext.search[1]

\* the documents the search returned to the call
Retrieved == similarity_search(faiss_index.docs, call.k, call.ext.search)

\* C3: when the index loads and retrieval returns zero chunks, the answer has
\* confidence "low" and no sources, and the call neither initialises nor
\* invokes the generative model.
C3_EmptyRetrievalIsLow ==
    (Searched /\ Retrieved = <<>>) =>
        /\ call.ret.confidence = "low"
        /\ call.ret.sources = <<>>
        /\ call.log = <<>>

\* an empty retrieval while the model could have been initialised and would
\* have given a grounded answer
C3_Witness ==
    /\ Searched /\ Retrieved = <<>>
    /\ call.ext.init = InitOk
    /\ call.ext.outs = Same(Returned(GroundedBySource))

\* groundedness as the claim words it
ClaimGrounded(text, context) ==
    \/ Contains(Upper(text), "SOURCE")
    \/ Contains(Upper(text), "SECTION")
    \/ Cardinality(WordSet(Lower(text)) \cap WordSet(Lower(context))) > 3

\* some attempt of the call returned non-empty text that passed validation
SomeAttemptValidated ==
    \E i \in 1..Len(call.log) :
        /\ call.log[i].prompt = "answer"
        /\ ~call.log[i].outcome.raises
        /\ call.log[i].outcome.shape = "str"
        /\ Strip(call.log[i].outcome.text) # ""
        /\ ClaimGrounded(call.log[i].outcome.text, AnswerContext(Retrieved))

\* C4: the confidence is "high" if and only if some attempt returned
\* non-empty text that is grounded (it contains SOURCE or SECTION in any case,
\* or shares more than 3 distinct words with the context); it is "low" exactly
\* for an empty retrieval, "error" exactly when loading or searching the index
\* raised, and "medium" for every other result, which is the fallback.
C4_Confidence ==
    Answered =>
        /\ call.ret.confidence = "error" <=> ~Searched
        /\ call.ret.confidence = "low" <=> (Searched /\ Retrieved = <<>>)
        /\ call.ret.confidence = "high" <=>
              (Searched /\ Retrieved # <<>> /\ SomeAttemptValidated)
        /\ call.ret.confidence = "medium" <=>
              (Searched /\ Retrieved # <<>> /\ ~SomeAttemptValidated)
        /\ call.ret.confidence = "medium" =>
              call.ret = generate_fallback_answer(Retrieved)

\* a high-confidence answer grounded by shared words only, on the third attempt
C4_Witness ==
    /\ Answered /\ call.ret.confidence = "high"
    /\ Len(call.log) = 4
    /\ ~Contains(Upper(call.ret.answer), "SOURCE")

\* the model cannot be initialised, or every attempt raises or returns
\* empty text
ModelGivesNothing ==
    \/ ~call.ext.init.token
    \/ ~call.ext.init.construct
    \/ call.ext.init.test.raises
    \/ Strip(call.ext.init.test.text) = ""
    \/ \A i \in 1..3 : \/ call.ext.outs[i].raises
                       \/ Strip(call.ext.outs[i].text) = ""

\* C5: for a non-empty retrieval, when the model cannot be initialised or
\* every attempt raises or returns empty text, the call returns the fallback
\* result: confidence "medium" and as sources all the retrieved chunks in
\* retrieval order.
C5_FallbackOnFailure ==
    (Searched /\ Retrieved # <<>> /\ ModelGivesNothing) =>
        /\ call.ret.confidence = "medium"
        /\ call.ret.sources =
              [i \in 1..Len(Retrieved) |->
                  [page_content |-> Retrieved[i].page_content,
                   metadata |-> Retrieved[i].metadata]]
        /\ Len(call.log) <= 4

\* three attempts that raised, with more retrieved chunks than the fallback
\* answer quotes
C5_Witness ==
    /\ Searched /\ Len(Retrieved) > 3
    /\ call.ext.init = InitOk
    /\ call.ext.outs = Same(Raised)
    /\ Len(call.log) = 4

-----------------------------------------------------------------------------
(* Claims about logic_quiz.py *)

Generated == IsCall("generate_challenge_questions")

ModelUnavailable ==
    \/ ~call.ext.init.token
    \/ ~call.ext.init.construct
    \/ \A i \in 1..3 : call.ext.outs[i].raises

\* C6 as stated: with the model unavailable, generate_challenge_questions
\* returns exactly num questions, for every chunk list and every num >= 1.
C6_ExactlyNum ==
    (Generated /\ ModelUnavailable) => Len(call.ret) = call.num

\* the section names among the first 10 chunks
ClaimSections(doc_chunks) ==
    {doc_chunks[i].section : i \in 1..Min(10, Len(doc_chunks))} \ {""}

\* some word of more than 6 letters among the first 10 chunks
ClaimKeyTerm(doc_chunks) ==
    \E i \in 1..Min(10, Len(doc_chunks)) :
        \E w \in WordSet(Lower(doc_chunks[i].text)) : Len(w) > 6 /\ IsAlpha(w)

\* the number of fallback questions there are for a chunk list
ClaimPool(doc_chunks) ==
    IF doc_chunks = <<>> THEN 3
    ELSE 5 + (IF Cardinality(ClaimSections(doc_chunks)) >= 2 THEN 1 ELSE 0)
           + (IF ClaimKeyTerm(doc_chunks) THEN 1 ELSE 0)

\* C6 as amended: with the model unavailable, generate_challenge_questions
\* returns min(num, p) questions, p being 3 for no chunks and otherwise 5, plus
\* 1 when the first 10 chunks name two sections or more, plus 1 when they hold
\* a word of more than 6 letters; hence exactly num whenever num <= 3.
C6_NumUpToPool ==
    (Generated /\ ModelUnavailable) =>
        /\ Len(call.ret) = Min(call.num, ClaimPool(call.doc_chunks))
        /\ call.num <= 3 => Len(call.ret) = call.num
        /\ call.log = <<>> \/ \A i \in 1..Len(call.log) : call.log[i].outcome.raises

\* more questions asked for than there are, for a document of two sections
C6_Witness ==
    /\ Generated /\ ModelUnavailable
    /\ Len(call.doc_chunks) = 2
    /\ call.num = 8
    /\ Len(call.ret) = 7

\* C7: for a user answer that is empty once trimmed, evaluate_user_answer
\* does not invoke the generative model and returns the canned feedback for
\* a brief answer.
C7_EmptyAnswerNoModel ==
    (IsCall("evaluate_user_answer") /\ Strip(call.user_answer) = "") =>
        /\ call.log = <<>>
        /\ call.ret = BriefFeedback

-----------------------------------------------------------------------------
(* Claims about the upload's format *)

\* the name ends in neither .pdf nor .txt (in any case, as extract_text reads it)
Unsupported(filename) ==
    /\ ~EndsWith(Lower(filename), ".pdf")
    /\ ~EndsWith(Lower(filename), ".txt")

\* C11: for a file whose name ends in neither .pdf nor .txt, process_document
\* fails with the unsupported-format error and invokes no parsing routine.
C11_UnsupportedBeforeParsing ==
    (IsCall("process_document") /\ Unsupported(call.file.filename)) =>
        /\ call.ret.raises
        /\ call.ret.error =
             "Unsupported file format. Only PDF and TXT files are supported."
        /\ call.ret.parser = "none"

\* a .csv file with readable text in it
C11_Witness ==
    /\ IsCall("process_document")
    /\ call.file.filename = "table.csv"
    /\ Strip(call.file.text) # ""

\* C11 at the server: /process of such a file responds 400 with the
\* unsupported-format error, and process_document is not reached.
C11_AtServer ==
    (http.endpoint = "/process" /\ http.error # "No file uploaded"
        /\ http.error # "No filename provided" /\ Unsupported(http.filename)) =>
        /\ http.status = 400
        /\ http.error = "Only PDF and TXT files are supported"
        /\ http.parser = "none"

-----------------------------------------------------------------------------
(* Claims about the shared state of the server *)

\* worker w has just had process_document succeed on its upload
Processed(w) == workers[w].pc = "idle" /\ workers'[w].pc = "build"

\* C12: document_chunks changes only in a step in which process_document
\* succeeded for a /process request, and then it is exactly the chunk list of
\* that request's document; a /process request that is rejected (no file, no
\* name, unsupported extension, extraction error, no sections, no chunks)
\* leaves document_chunks and the persisted index as they were.
C12_ReplacedWholesale ==
    [][ /\ document_chunks' # document_chunks =>
              \E w \in Workers : Processed(w)
        /\ \A w \in Workers :
              Processed(w) => document_chunks' = workers'[w].result.chunks
        /\ (http = NoResponse /\ http'.endpoint = "/process" /\ http'.status = 400) =>
              (document_chunks' = document_chunks /\ faiss_index' = faiss_index)
      ]_vars

\* a second document in progress: its chunks are live, the index is still
\* that of the document before it
C12_Witness ==
    \E w \in Workers :
        /\ workers[w].pc = "build"
        /\ document_chunks = workers[w].result.chunks
        /\ faiss_index.exists
        /\ \A i \in 1..Len(faiss_index.docs) :
              \A j \in 1..Len(document_chunks) :
                  faiss_index.docs[i].page_content # document_chunks[j].text

ReadOnlyEndpoints ==
    {"/ask", "/challenge/init", "/challenge/evaluate", "/document/info", "/health"}

\* C13: a step in which /ask, /challenge/init, /challenge/evaluate,
\* /document/info or /health responds, with success or with an error, and
\* with /process requests in any stage around it, changes neither
\* document_chunks nor the persisted index.
C13_ReadOnly ==
    [][ (http = NoResponse /\ http'.endpoint \in ReadOnlyEndpoints) =>
            (document_chunks' = document_chunks /\ faiss_index' = faiss_index)
      ]_vars

\* /challenge/init answered from the chunks of the request, none being live
C13_Witness ==
    /\ http.endpoint = "/challenge/init"
    /\ http.status = 200
    /\ document_chunks = <<>>

\* C14: when /process requests for different documents were in flight
\* together and all of them succeeded, build of the index included, then once
\* none is in progress the live chunk set and the persisted index come from
\* the same request.
C14_LastWriterWinsWhole ==
    (overlapped /\ ~build_failed /\ Busy = {} /\ document_chunks # <<>>) =>
        /\ faiss_index.exists
        /\ faiss_index.docs = IndexDocs(document_chunks)

-----------------------------------------------------------------------------
(* Claims about the persisted index *)

\* C15: with no persisted index, retrieve_relevant_chunks does not return
\* the empty sequence, which is what it returns when an index is there and
\* loading or searching it fails: the caller can tell the two apart.
C15_MissingIndexIsAnError ==
    (IsCall("retrieve_relevant_chunks") /\ ~faiss_index.exists) =>
        call.ret # <<>>

\* C16: when the embedding service fails while /process builds the index,
\* the response of the request is not a success.
C16_EmbeddingFailureFailsRequest ==
    (http.endpoint = "/process" /\ http.status = 200) =>
        http.vector_store_error # "embedding failed"

\* the chunks whose text is neither empty nor blank, in input order
Surviving(chunks) ==
    FilterAt(chunks, {i \in 1..Len(chunks) : Strip(chunks[i].text) # ""})

\* C17: build_vector_store skips the chunks with empty or blank text and
\* stores the i-th surviving chunk, counting from 0, with chunk_id = i: the
\* chunk_ids are 0, 1, ..., m - 1.
C17_ChunkIdsFromZero ==
    (IsCall("build_vector_store") /\ ~call.raises) =>
        LET kept == Surviving(call.chunks)
        IN  /\ Len(faiss_index.docs) = Len(kept)
            /\ \A i \in 1..Len(kept) :
                  /\ faiss_index.docs[i].page_content = kept[i].text
                  /\ faiss_index.docs[i].metadata.chunk_id = i - 1

-----------------------------------------------------------------------------
(* Claims about the result of process_document *)

\* the sections of the file of the call, and the chunks of section k
CallSections == split_into_sections(extract_text(call.file).value)
CallChunked(k) == chunk_section(CallSections.val[k], call.split)

\* the number of chunks of the sections before section k
RECURSIVE ChunksBefore(_)
ChunksBefore(k) ==
    IF k <= 1 THEN 0 ELSE ChunksBefore(k - 1) + Len(CallChunked(k - 1))

\* C18: the chunk list of a process_document result is the chunks of the
\* first section, then those of the second, and so on; the i-th chunk of a
\* section has paragraph i, the numbering starting at 1 in every section.
C18_ParagraphPerSection ==
    (IsCall("process_document") /\ ~call.ret.raises) =>
        LET chunks == call.ret.value.chunks
            K == Len(CallSections.keys)
        IN  /\ Len(chunks) = ChunksBefore(K + 1)
            /\ \A k \in 1..K : \A i \in 1..Len(CallChunked(k)) :
                  chunks[ChunksBefore(k) + i] =
                      [section |-> CallSections.keys[k],
                       paragraph |-> i,
                       text |-> CallChunked(k)[i]]

\* a result of two sections, each of two chunks or more
C18_Witness ==
    /\ IsCall("process_document") /\ ~call.ret.raises
    /\ Len(CallSections.keys) = 2
    /\ Len(CallChunked(1)) >= 2
    /\ Len(CallChunked(2)) >= 2
    /\ call.ret.value.chunks[Len(CallChunked(1)) + 1].paragraph = 1

-----------------------------------------------------------------------------
(* Claims about the invocations of the generative model *)

CallsModel ==
    \/ IsCall("generate_answer_with_sources")
    \/ IsCall("evaluate_user_answer")
    \/ IsCall("generate_challenge_questions")

\* the invocations of a log that are attempts, not the test of the connection
AttemptsOf(log) == {i \in 1..Len(log) : log[i].prompt # "Test"}

\* C19 as stated: one call of generate_answer_with_sources,
\* evaluate_user_answer or generate_challenge_questions invokes the model at
\* most 3 times in total.
C19_AtMostThreeInvocations ==
    CallsModel => Len(call.log) <= 3

\* C19 as amended: one call makes at most 3 attempts, one after the other;
\* generate_answer_with_sources makes before them one more invocation, the
\* "Test" of get_llm, so at most 4 in total, and the other two make none but
\* the attempts.
C19_AtMostThreeAttempts ==
    CallsModel =>
        /\ Cardinality(AttemptsOf(call.log)) <= 3
        /\ \A i \in 1..Len(call.log) : i \notin AttemptsOf(call.log) => i = 1
        /\ Len(call.log) <= (IF IsCall("generate_answer_with_sources") THEN 4 ELSE 3)

\* the test of the connection and three attempts in one call
C19_Witness ==
    /\ IsCall("generate_answer_with_sources")
    /\ Len(call.log) = 4
    /\ Cardinality(AttemptsOf(call.log)) = 3

Evaluated == IsCall("evaluate_user_answer")

\* the chunks retrieve_relevant_chunks returned to the evaluation
EvalRetrieved ==
    retrieve_relevant_chunks(faiss_index, DefaultK, call.ext.load_ok, call.ext.search)

\* groundedness of an evaluation as the specification words it
ClaimEvalGrounded(text, context, user_answer) ==
    \/ Contains(Upper(text), "SOURCE")
    \/ Contains(Upper(text), "SECTION")
    \/ /\ Cardinality(WordSet(Lower(text)) \cap WordSet(Lower(context))) > 5
       /\ Cardinality(WordSet(Lower(text)) \cap WordSet(Lower(user_answer))) > 3

\* invocation i of the call is an attempt that returned non-empty text
ReturnedText(i) ==
    /\ call.log[i].prompt # "Test"
    /\ ~call.log[i].outcome.raises
    /\ call.log[i].outcome.shape = "str"
    /\ Strip(call.log[i].outcome.text) # ""

\* invocation i returned non-empty text that validation rejects
Rejected(i) ==
    /\ ReturnedText(i)
    /\ \/ /\ Answered
          /\ ~ClaimGrounded(call.log[i].outcome.text, AnswerContext(Retrieved))
       \/ /\ Evaluated
          /\ ~ClaimEvalGrounded(call.log[i].outcome.text,
                                EvalContext(EvalRetrieved), call.user_answer)

\* C20: in generate_answer_with_sources and evaluate_user_answer, an attempt
\* that returns non-empty text failing the groundedness validation is the
\* last invocation of the call, and the call returns the fallback built from
\* the retrieved chunks: the medium-confidence answer with all of them as
\* sources, or the fallback evaluation computed on them.
C20_RejectionEndsAttempts ==
    (Answered \/ Evaluated) =>
        \A i \in 1..Len(call.log) :
            Rejected(i) =>
                /\ i = Len(call.log)
                /\ Answered =>
                      /\ call.ret.confidence = "medium"
                      /\ Len(call.ret.sources) = Len(Retrieved)
                      /\ call.ret = generate_fallback_answer(Retrieved)
                /\ Evaluated =>
                      /\ EvalRetrieved # <<>>
                      /\ call.ret =
                            generate_fallback_evaluation(call.user_answer, EvalRetrieved)

\* the first attempt is rejected although the second would have been grounded
C20_Witness ==
    /\ Answered
    /\ Len(call.log) = 2
    /\ Rejected(2)
    /\ call.ext.outs[2] = Returned(GroundedBySource)
    /\ call.ret.confidence = "medium"

\* an evaluation rejected on the first attempt (the case of C20 in
\* evaluate_user_answer)
EvalRejectedFirst ==
    /\ Evaluated
    /\ Len(call.log) = 1
    /\ Rejected(1)
    /\ call.ext.outs[2] = Returned(GoodEvaluation)

-----------------------------------------------------------------------------
(* Claims about generate_challenge_questions *)

\* the chunks that are the first of their section, in chunk-list order, cut
\* off after 8
ClaimSelected(doc_chunks) ==
    LET firsts == FilterAt(doc_chunks,
                     {i \in 1..Len(doc_chunks) :
                         \A j \in 1..(i - 1) :
                             doc_chunks[j].section # doc_chunks[i].section})
    IN  SubSeq(firsts, 1, Min(8, Len(firsts)))

\* the valid questions that invocation i of the call yielded: none when it
\* raised or returned an empty response
ValidQuestions(i) ==
    IF call.log[i].outcome.raises \/ Strip(call.log[i].outcome.text) = ""
    THEN <<>>
    ELSE parse_and_validate_questions(call.log[i].outcome.text,
                                      ClaimSelected(call.doc_chunks))

\* C21 as stated: an attempt yielding j valid questions, 0 < j < n, is the
\* last invocation of the call and the result is those j questions followed
\* by fallback questions, n in total; an attempt is followed by another only
\* when it yielded no valid question.
C21_PaddedToNum ==
    Generated =>
        \A i \in 1..Len(call.log) :
            LET j == Len(ValidQuestions(i))
            IN  /\ (0 < j /\ j < call.num) =>
                      /\ i = Len(call.log)
                      /\ SubSeq(call.ret, 1, j) = ValidQuestions(i)
                      /\ Len(call.ret) = call.num
                /\ i < Len(call.log) => j = 0

\* C21 as amended: the j questions are followed by min(n - j, p) fallback
\* questions, p being the number of fallback questions there are for the
\* selected chunks (5, 6 or 7), so the result holds n questions whenever
\* n <= 6; the rest as stated.
C21_PaddedUpToPool ==
    Generated =>
        \A i \in 1..Len(call.log) :
            LET j == Len(ValidQuestions(i))
                p == ClaimPool(ClaimSelected(call.doc_chunks))
            IN  /\ (0 < j /\ j < call.num) =>
                      /\ i = Len(call.log)
                      /\ SubSeq(call.ret, 1, j) = ValidQuestions(i)
                      /\ Len(call.ret) = j + Min(call.num - j, p)
                      /\ \A q \in (j + 1)..Len(call.ret) :
                            call.ret[q] \notin {ValidQuestions(i)[x] : x \in 1..j}
                      /\ call.num <= 6 => Len(call.ret) = call.num
                /\ i < Len(call.log) => j = 0

\* one valid question of 8 asked for, for a document with 5 fallback questions
C21_Witness ==
    /\ Generated
    /\ call.num = 8
    /\ Len(call.log) = 1
    /\ Len(ValidQuestions(1)) = 1
    /\ Len(call.ret) = 6

-----------------------------------------------------------------------------
(* Claims about the fallback evaluation *)

\* some attempt of the evaluation returned non-empty text that passed validation
SomeEvaluationValidated ==
    \E i \in 1..Len(call.log) :
        /\ ReturnedText(i)
        /\ ClaimEvalGrounded(call.log[i].outcome.text,
                             EvalContext(EvalRetrieved), call.user_answer)

\* the evaluation retrieved chunks and fell back
EvalFellBack == Evaluated /\ EvalRetrieved # <<>> /\ ~SomeEvaluationValidated

OverlapPhrases ==
    {"Your answer shows good engagement with the document content. ",
     "Your answer has some connection to the document content. ",
     "Consider referencing more specific details from the document. "}

\* C22: whenever evaluate_user_answer retrieved a non-empty chunk list and
\* falls back, for whatever reason, the feedback contains exactly one of the
\* three lexical-overlap phrases (read for answers of at least 5 characters,
\* shorter ones getting the canned feedback for a brief answer).
C22_FallbackUsesChunks ==
    (EvalFellBack /\ Len(Strip(call.user_answer)) >= 5) =>
        Cardinality({ph \in OverlapPhrases : Contains(call.ret, ph)}) = 1

\* the fallback evaluation was called with the retrieved chunks: the model
\* was initialised and the last invocation did not raise
FallbackWithChunks ==
    /\ EvalFellBack
    /\ Len(Strip(call.user_answer)) >= 5
    /\ call.ext.init.token /\ call.ext.init.construct
    /\ Len(call.log) >= 1
    /\ ~call.log[Len(call.log)].outcome.raises

\* the number of distinct words shared by the user answer and the text of
\* the top 3 retrieved chunks
SharedWords ==
    LET top == SubSeq(EvalRetrieved, 1, Min(3, Len(EvalRetrieved)))
    IN  Cardinality(WordSet(Lower(call.user_answer))
                    \cap UNION {WordSet(Lower(top[i].page_content)) : i \in 1..Len(top)})

\* C23: in the fallback evaluation with chunks present, an overlap v of more
\* than 10 words gives the "good engagement" phrase, 5 <= v <= 10 the "some
\* connection" phrase and v < 5 the "reference more specific details" phrase.
C23_OverlapBands ==
    FallbackWithChunks =>
        /\ SharedWords > 10 =>
              Contains(call.ret, "Your answer shows good engagement with the document content. ")
        /\ (5 <= SharedWords /\ SharedWords <= 10) =>
              Contains(call.ret, "Your answer has some connection to the document content. ")
        /\ SharedWords < 5 =>
              Contains(call.ret, "Consider referencing more specific details from the document. ")

\* the same with the band of "some connection" from 6 to 10 and the band of
\* "reference more specific details" up to 5, as the comparisons of the code
\* have it
OverlapBandsOfCode ==
    FallbackWithChunks =>
        /\ SharedWords > 10 =>
              Contains(call.ret, "Your answer shows good engagement with the document content. ")
        /\ (6 <= SharedWords /\ SharedWords <= 10) =>
              Contains(call.ret, "Your answer has some connection to the document content. ")
        /\ SharedWords <= 5 =>
              Contains(call.ret, "Consider referencing more specific details from the document. ")

\* a fallback evaluation of an answer sharing exactly 5 words with the chunks
SharedFive == FallbackWithChunks /\ SharedWords = 5

-----------------------------------------------------------------------------
(* Claims about the chunks selected for question generation *)

\* the call got as far as selecting chunks: get_llm did not raise
Selecting == Generated /\ call.ext.init.token /\ call.ext.init.construct

DistinctSections(doc_chunks) == {doc_chunks[i].section : i \in 1..Len(doc_chunks)}

\* C24: the chunks selected for question generation are, in chunk-list
\* order, the first chunk of each distinct section, cut off after 8: their
\* sections are pairwise distinct and they number min(8, number of distinct
\* sections); the first 5 chunks are taken instead only when that selection
\* is empty.
C24_FirstChunkPerSection ==
    Selecting =>
        LET firsts == ClaimSelected(call.doc_chunks)
        IN  /\ firsts # <<>> =>
                  /\ call.selected = firsts
                  /\ \A i, j \in 1..Len(call.selected) :
                        i # j => call.selected[i].section # call.selected[j].section
                  /\ Len(call.selected)
                        = Min(8, Cardinality(DistinctSections(call.doc_chunks)))
            /\ firsts = <<>> =>
                  call.selected
                     = SubSeq(call.doc_chunks, 1, Min(5, Len(call.doc_chunks)))

\* nine sections in ten chunks: eight chunks selected, the second chunk of
\* the first section passed over
C24_Witness ==
    /\ Selecting
    /\ Len(call.doc_chunks) = 10
    /\ Cardinality(DistinctSections(call.doc_chunks)) = 9
    /\ Len(call.selected) = 8
    /\ call.selected[2] = call.doc_chunks[3]

-----------------------------------------------------------------------------
(* Claims about the segmentation failing *)

\* the non-blank lines of a text that are headers
HeaderLines(text) ==
    LET lines == SplitLines(text)
    IN  {j \in 1..Len(lines) :
            Strip(lines[j]) # "" /\ MatchedHeader(Strip(lines[j])) # 0}

\* process_document called on a text file whose text was extracted
ProcessedText ==
    /\ IsCall("process_document")
    /\ call.ret.parser = "txt"
    /\ Strip(call.file.text) # ""

\* C25: split_into_sections returns an empty map, and process_document then
\* fails with "No sections found in document", if and only if the text has
\* no non-blank line that is not a header; a text with such lines and no
\* header line gives the single section "Main Content" and does not fail
\* segmentation.
C25_EmptyMapIffNoBody ==
    /\ IsCall("split_into_sections") =>
          /\ call.ret.keys = <<>> <=> BodyLines(call.text) = {}
          /\ (BodyLines(call.text) # {} /\ HeaderLines(call.text) = {}) =>
                call.ret.keys = <<"Main Content">>
    /\ ProcessedText =>
          /\ (call.ret.raises /\ call.ret.error = "No sections found in document")
                <=> BodyLines(call.file.text) = {}
          /\ (BodyLines(call.file.text) # {} /\ HeaderLines(call.file.text) = {}) =>
                IF call.ret.raises
                THEN call.ret.error = "No chunks generated from document"
                ELSE call.ret.value.sections = <<"Main Content">>

\* a text of header lines only, on which process_document fails
C25_Witness ==
    /\ ProcessedText
    /\ Cardinality(HeaderLines(call.file.text)) = 2
    /\ call.ret.raises
    /\ call.ret.error = "No sections found in document"

\* a text without header lines processed into the section "Main Content"
HeadlessProcessed ==
    /\ ProcessedText
    /\ HeaderLines(call.file.text) = {}
    /\ ~call.ret.raises
    /\ call.ret.value.sections = <<"Main Content">>

-----------------------------------------------------------------------------
(* Claims about structured responses of the model *)

\* the first attempt of the call returned a structured response whose text
\* is non-empty and grounded
FirstAttemptStructured ==
    /\ Searched /\ Retrieved # <<>>
    /\ call.ext.init = InitOk
    /\ ~call.ext.outs[1].raises
    /\ call.ext.outs[1].shape \in {"content", "text", "choices_message", "choices_text"}
    /\ Strip(call.ext.outs[1].text) # ""
    /\ ClaimGrounded(call.ext.outs[1].text, AnswerContext(Retrieved))

\* C26: generate_answer_with_sources handles a structured response like the
\* plain string of the same text: a grounded structured response gives
\* confidence "high" with that text, trimmed, as the answer.
C26_StructuredLikeString ==
    FirstAttemptStructured =>
        /\ call.ret.confidence = "high"
        /\ call.ret.answer = Strip(call.ext.outs[1].text)

-----------------------------------------------------------------------------
(* Claims about the persisted index *)

\* C27: a build_vector_store that fails, for want of valid chunks or because
\* the embedding raises, leaves the persisted index as it was, and that is
\* the index a query loads; the persisted index changes only by a build that
\* completes, and then holds the documents of the new chunks and nothing of
\* the index before.
C27_FailedBuildKeepsIndex ==
    [][ /\ (call = NoCall /\ call' # NoCall /\ call'.fn = "build_vector_store") =>
              IF call'.raises
              THEN faiss_index' = faiss_index
              ELSE /\ faiss_index'.exists
                   /\ Len(faiss_index'.docs) = Len(Surviving(call'.chunks))
                   /\ \A i \in 1..Len(faiss_index'.docs) :
                         /\ faiss_index'.docs[i].page_content
                               = Surviving(call'.chunks)[i].text
                         /\ faiss_index'.docs[i].metadata.section
                               = Surviving(call'.chunks)[i].section
        /\ faiss_index' # faiss_index =>
              (call' # NoCall /\ call'.fn = "build_vector_store" /\ ~call'.raises)
        /\ (call = NoCall /\ call' # NoCall /\ call'.fn = "retrieve_relevant_chunks"
              /\ call'.ext.load_ok /\ call'.ext.search[1]) =>
              \A i \in 1..Len(call'.ret) :
                 \E j \in 1..Len(faiss_index.docs) : call'.ret[i] = faiss_index.docs[j]
      ]_vars

\* a build that failed in the embedding while an index was persisted
C27_Witness ==
    /\ IsCall("build_vector_store")
    /\ call.raises
    /\ call.error # "No valid text chunks provided"
    /\ faiss_index.exists
    /\ Len(faiss_index.docs) >= 2

-----------------------------------------------------------------------------
(* Claims about generate_fallback_questions *)

\* C28: for the same chunk list and the same num, two invocations of
\* generate_fallback_questions return the same sequence of questions, the
\* question that names sections included.
C28_FallbackDeterministic ==
    (IsCall("generate_fallback_questions") /\ call.prior # <<>>) =>
        call.ret = call.prior[1]

\* the same for chunk lists of one section, whose questions name no section
OneSectionDeterministic ==
    (/\ IsCall("generate_fallback_questions")
     /\ call.prior # <<>>
     /\ Cardinality(ClaimSections(call.doc_chunks)) <= 1) =>
        call.ret = call.prior[1]

-----------------------------------------------------------------------------
(* Claims about the responses of /process *)

\* C29: /process reports success only for a document that yielded at least
\* one chunk: document_chunks, empty at the start, is only ever set to the
\* non-empty chunk list of a document that was processed, and a success
\* response carries at least one chunk and the vector_store_status "success"
\* or "failed", never "no_chunks".
C29_SuccessHasChunks ==
    [][ /\ document_chunks' # document_chunks =>
              /\ Len(document_chunks') >= 1
              /\ \E w \in Workers :
                    /\ Processed(w)
                    /\ workers'[w].result.chunks = document_chunks'
        /\ \A w \in Workers : Processed(w) => Len(document_chunks') >= 1
        /\ (http = NoResponse /\ http'.endpoint = "/process" /\ http'.status = 200) =>
              /\ Len(http'.chunks) >= 1
              /\ http'.total_chunks >= 1
              /\ http'.vector_store_status \in {"success", "failed"}
              /\ document_chunks' # <<>>
      ]_vars

\* a success response of /process whose index build failed
C29_Witness ==
    /\ http.endpoint = "/process"
    /\ http.status = 200
    /\ http.vector_store_status = "failed"
    /\ Len(http.chunks) >= 1
    /\ document_chunks # <<>>

-----------------------------------------------------------------------------
(* Claims about /challenge/init *)

InitAnswered == http.endpoint = "/challenge/init"

\* C30: when chunks are stored, /challenge/init generates the questions from
\* the stored chunks, whatever chunks the request carries; it uses the
\* chunks of the request only when none is stored, and with neither it
\* answers 400 without invoking the generative model.
C30_StoredChunksFirst ==
    InitAnswered =>
        /\ document_chunks # <<>> =>
              (http.status # 400 /\ http.used = document_chunks)
        /\ (document_chunks = <<>> /\ http.request # <<>>) =>
              (http.status # 400 /\ http.used = http.request)
        /\ (document_chunks = <<>> /\ http.request = <<>>) =>
              (http.status = 400 /\ http.log = <<>>)
        /\ http.used = http.request =>
              (document_chunks = <<>> \/ http.request = document_chunks)

\* chunks stored and other chunks in the request: the stored ones are used
C30_Witness ==
    /\ InitAnswered
    /\ document_chunks # <<>>
    /\ http.request # <<>>
    /\ http.request # document_chunks
    /\ http.status = 200
    /\ http.used = document_chunks

\* nothing stored and nothing in the request
NeitherAvailable ==
    InitAnswered /\ document_chunks = <<>> /\ http.request = <<>> /\ http.status = 400
=============================================================================
